---- MODULE Spec2Model ----
(***************************************************************************)
(* rarch: rule-based file organiser.  The model covers the engine          *)
(* (src/src/engine.rs), the journal (src/src/journal.rs) and the undo      *)
(* command (src/src/main.rs).                                              *)
(*                                                                         *)
(* Strings are sequences of tokens ("texts"): a token is a placeholder     *)
(* such as "${name}", a separator "/" or ".", or a literal piece of a      *)
(* name.  A path is the text of its string.  The file system is a map      *)
(* from the paths of the existing regular files to file records, plus the  *)
(* set of existing directories.                                            *)
(***************************************************************************)
EXTENDS Integers, Sequences, FiniteSets, TLC

(***************************************************************************)
(* Option<T>: None is the empty sequence, Some(v) the one-element one.     *)
(***************************************************************************)
None == <<>>
Some(v) == <<v>>
IsSome(o) == Len(o) > 0
Unwrap(o) == o[1]

(***************************************************************************)
(* Texts (str / String)                                                    *)
(***************************************************************************)
contains(s, tok) == \E i \in DOMAIN s : s[i] = tok

RECURSIVE replace(_, _, _)
replace(s, pat, by) ==
    IF s = <<>> THEN <<>>
    ELSE IF Head(s) = pat THEN by \o replace(Tail(s), pat, by)
    ELSE <<Head(s)>> \o replace(Tail(s), pat, by)

\* Position of the last occurrence of tok in s, 0 when there is none.
LastIndex(s, tok) ==
    IF contains(s, tok)
    THEN CHOOSE i \in DOMAIN s : s[i] = tok /\ \A j \in DOMAIN s : s[j] = tok => j <= i
    ELSE 0

\* str::to_lowercase on the extensions the model uses.
to_lowercase(s) ==
    CASE s = "TXT" -> "txt"
      [] s = "LOG" -> "log"
      [] OTHER -> s

(***************************************************************************)
(* Paths (std::path::Path)                                                 *)
(***************************************************************************)
is_absolute(p) == p # <<>> /\ Head(p) = "/"

join(a, b) ==
    IF is_absolute(b) THEN b
    ELSE IF a = <<>> \/ a[Len(a)] = "/" THEN a \o b
    ELSE a \o <<"/">> \o b

file_name(p) == SubSeq(p, LastIndex(p, "/") + 1, Len(p))

parent(p) ==
    LET k == LastIndex(p, "/")
    IN  IF k = 1 THEN <<"/">> ELSE SubSeq(p, 1, k - 1)

\* Option<text>: the part of the file name after its last dot; None when
\* there is no dot or the only dot leads the name.
extension(p) ==
    LET n == file_name(p)
        k == LastIndex(n, ".")
    IN  IF k <= 1 THEN None ELSE Some(SubSeq(n, k + 1, Len(n)))

file_stem(p) ==
    LET n == file_name(p)
        k == LastIndex(n, ".")
    IN  IF k <= 1 THEN n ELSE SubSeq(n, 1, k - 1)

\* The directories a path lies in, nearest last.
Ancestors(p) == { SubSeq(p, 1, k - 1) : k \in { i \in DOMAIN p : i > 1 /\ p[i] = "/" } }

(***************************************************************************)
(* Rules (config.rs) and files                                             *)
(*                                                                         *)
(* A rule is a record with the fields of struct Rule; every Option field   *)
(* holds None or Some(v).  extensions holds a sequence of texts, regex a   *)
(* record [valid, lang] (whether the pattern compiles, and the set of file *)
(* names it matches), max_age a record [num, unit] (the parsed number, if  *)
(* the digits parse, and the last character of the string).                *)
(* A file is a record [content, size, mtime, sniff]: sniff is what         *)
(* infer::get finds in the first bytes, None or Some([ext, mime]).         *)
(***************************************************************************)
RenameLimit == 998

DefaultStrategy == "Rename"

Rule(name, extensions, target, min_size, conflict) ==
    [name |-> name, extensions |-> extensions, regex |-> None, ai_prompt |-> None,
     ai_rename_prompt |-> None, target |-> target, min_size |-> min_size,
     max_age |-> None, mime |-> None, type |-> None, conflict |-> conflict]

\* The part of a mime string before its "/".
mime_top(m) ==
    CASE m = "image/png" -> "image"
      [] m = "video/mp4" -> "video"
      [] m = "audio/mpeg" -> "audio"
      [] m = "text/plain" -> "text"
      [] OTHER -> "application"

\* rule_mime.ends_with("/*"): Some(the type before "/*"), else None.
wildcard_top(rm) ==
    CASE rm = "image/*" -> Some("image")
      [] rm = "video/*" -> Some("video")
      [] rm = "audio/*" -> Some("audio")
      [] rm = "text/*" -> Some("text")
      [] rm = "application/*" -> Some("application")
      [] OTHER -> None

\* actual_mime.contains(w) for the words of the "document" preset.
mime_contains(m, w) ==
    \/ w = "pdf" /\ m = "application/pdf"
    \/ w = "word" /\ m = "application/msword"
    \/ w = "text" /\ m = "text/plain"

mime_matched(rule, sniff) ==
    /\ IsSome(rule.mime)
    /\ IsSome(sniff)
    /\ LET rule_mime == Unwrap(rule.mime)
           actual_mime == Unwrap(sniff).mime
       IN  \/ rule_mime = actual_mime
           \/ /\ IsSome(wildcard_top(rule_mime))
              /\ Unwrap(wildcard_top(rule_mime)) = mime_top(actual_mime)

type_matched(rule, sniff) ==
    /\ IsSome(rule.type)
    /\ IsSome(sniff)
    /\ LET rule_type == Unwrap(rule.type)
           actual_mime == Unwrap(sniff).mime
       IN  CASE rule_type = "image" -> mime_top(actual_mime) = "image"
             [] rule_type = "video" -> mime_top(actual_mime) = "video"
             [] rule_type = "audio" -> mime_top(actual_mime) = "audio"
             [] rule_type = "document" ->
                    \/ mime_contains(actual_mime, "pdf")
                    \/ mime_contains(actual_mime, "word")
                    \/ mime_contains(actual_mime, "text")
             [] OTHER -> FALSE

lower_text(t) == [i \in DOMAIN t |-> to_lowercase(t[i])]

\* The rule's extensions are compared as written, not lowercased.
extension_matched_exact(rule, sniff, path) ==
    /\ IsSome(rule.extensions)
    /\ LET rule_exts == Unwrap(rule.extensions)
           file_ext == extension(path)
       IN  \E k \in DOMAIN rule_exts :
              \/ IsSome(sniff) /\ rule_exts[k] = Unwrap(sniff).ext
              \/ IsSome(file_ext) /\ rule_exts[k] = lower_text(Unwrap(file_ext))

extension_matched(rule, sniff, path) ==
    /\ IsSome(rule.extensions)
    /\ LET rule_exts == Unwrap(rule.extensions)
           file_ext == extension(path)
       IN  \E k \in DOMAIN rule_exts :
              LET e_low == lower_text(rule_exts[k])
              IN  \/ IsSome(sniff) /\ e_low = Unwrap(sniff).ext
                  \/ IsSome(file_ext) /\ e_low = lower_text(Unwrap(file_ext))

regex_matched(rule, path) ==
    /\ IsSome(rule.regex)
    /\ Unwrap(rule.regex).valid
    /\ file_name(path) \in Unwrap(rule.regex).lang

\* answer: what AiOracle::matches_prompt returns for this rule in this call.
ai_matched(rule, aiOn, answer) ==
    /\ IsSome(rule.ai_prompt)
    /\ aiOn
    /\ answer

\* Every declared predicate has to hold.
rule_matched_all(rule, file, path, aiOn, answer) ==
    /\ IsSome(rule.mime) \/ IsSome(rule.type) \/ IsSome(rule.extensions)
          \/ IsSome(rule.regex) \/ IsSome(rule.ai_prompt)
    /\ IsSome(rule.mime) => mime_matched(rule, file.sniff)
    /\ IsSome(rule.type) => type_matched(rule, file.sniff)
    /\ IsSome(rule.extensions) => extension_matched(rule, file.sniff, path)
    /\ IsSome(rule.regex) => regex_matched(rule, path)
    /\ IsSome(rule.ai_prompt) => ai_matched(rule, aiOn, answer)

rule_matched(rule, file, path, aiOn, answer) ==
    \/ mime_matched(rule, file.sniff)
    \/ type_matched(rule, file.sniff)
    \/ extension_matched(rule, file.sniff, path)
    \/ regex_matched(rule, path)
    \/ ai_matched(rule, aiOn, answer)

\* Option<hours>
parse_age(s) ==
    IF ~IsSome(s.num) THEN None
    ELSE LET num == Unwrap(s.num)
             unit == to_lowercase(s.unit)
         IN  CASE unit = "d" -> Some(num * 24)
               [] unit = "w" -> Some(num * 24 * 7)
               [] unit = "m" -> Some(num * 30 * 24)
               [] unit = "y" -> Some(num * 365 * 24)
               [] unit = "h" -> Some(num)
               [] OTHER -> None

\* The AND filters: FALSE where the code says `continue`.
passes_filters(rule, file, now) ==
    /\ ~(IsSome(rule.min_size) /\ file.size < Unwrap(rule.min_size))
    /\ ~( /\ IsSome(rule.max_age)
          /\ IsSome(parse_age(Unwrap(rule.max_age)))
          /\ now - file.mtime < Unwrap(parse_age(Unwrap(rule.max_age))) )

\* The loop keeps the last rule that matches instead of returning the first.
RECURSIVE match_last(_, _, _, _, _, _, _)
match_last(i, rules, file, path, aiOn, answers, now) ==
    IF i > Len(rules) THEN 0
    ELSE LET later == match_last(i + 1, rules, file, path, aiOn, answers, now)
         IN  IF later # 0 THEN later
             ELSE IF /\ rule_matched(rules[i], file, path, aiOn, answers[i])
                     /\ passes_filters(rules[i], file, now)
                  THEN i ELSE 0

\* A rule whose predicate matches and whose filter rejects ends the loop
\* with "no match".
RECURSIVE match_stop(_, _, _, _, _, _, _)
match_stop(i, rules, file, path, aiOn, answers, now) ==
    IF i > Len(rules) THEN 0
    ELSE IF rule_matched(rules[i], file, path, aiOn, answers[i])
         THEN IF passes_filters(rules[i], file, now) THEN i ELSE 0
         ELSE match_stop(i + 1, rules, file, path, aiOn, answers, now)

\* The loop of match_rule from rule i on: the index of the rule returned,
\* 0 for None.  answers[i] is the oracle's answer for rule i.
RECURSIVE match_from(_, _, _, _, _, _, _)
match_from(i, rules, file, path, aiOn, answers, now) ==
    IF i > Len(rules) THEN 0
    ELSE IF /\ rule_matched(rules[i], file, path, aiOn, answers[i])
            /\ passes_filters(rules[i], file, now)
         THEN i
         ELSE match_from(i + 1, rules, file, path, aiOn, answers, now)

match_rule(path, fsys, rules, aiOn, answers, now) ==
    IF path \notin DOMAIN fsys THEN 0
    ELSE match_from(1, rules, fsys[path], path, aiOn, answers, now)

\* The oracle answers one call of match_rule can get: the oracle is asked
\* only for a rule that declares ai_prompt, and only when it is configured.
OracleAnswers(rules, aiOn) ==
    { a \in [DOMAIN rules -> BOOLEAN] :
        \A i \in DOMAIN rules : a[i] => (aiOn /\ IsSome(rules[i].ai_prompt)) }

\* Lines 405-428: matches_prompt is called for this rule: nothing else
\* matched, the rule declares ai_prompt and an oracle is configured.
oracle_asked(rule, file, path, aiOn) ==
    /\ ~mime_matched(rule, file.sniff)
    /\ ~type_matched(rule, file.sniff)
    /\ ~extension_matched(rule, file.sniff, path)
    /\ ~regex_matched(rule, path)
    /\ IsSome(rule.ai_prompt)
    /\ aiOn

\* How many times one call of match_rule calls matches_prompt: once for every
\* rule it asks about, up to the rule it returns.
RECURSIVE queries_from(_, _, _, _, _, _, _)
queries_from(i, rules, file, path, aiOn, answers, now) ==
    IF i > Len(rules) THEN 0
    ELSE (IF oracle_asked(rules[i], file, path, aiOn) THEN 1 ELSE 0)
         + (IF /\ rule_matched(rules[i], file, path, aiOn, answers[i])
               /\ passes_filters(rules[i], file, now)
            THEN 0
            ELSE queries_from(i + 1, rules, file, path, aiOn, answers, now))

queries(path, fsys, rules, aiOn, answers, now) ==
    IF path \notin DOMAIN fsys THEN 0
    ELSE queries_from(1, rules, fsys[path], path, aiOn, answers, now)

\* ai.rs 97 and 120-128: matches_prompt calls its reporter when it sends the
\* query and once more with the answer or the error.
reports_per_query == 2

(***************************************************************************)
(* Path resolver                                                           *)
(***************************************************************************)
IsLeap(y) == (y % 4 = 0 /\ y % 100 # 0) \/ y % 400 = 0

DaysInMonth(y, m) ==
    CASE m = 2 -> IF IsLeap(y) THEN 29 ELSE 28
      [] m \in {4, 6, 9, 11} -> 30
      [] OTHER -> 31

\* The calendar date n days after the first day of month m of year y.
RECURSIVE civil(_, _, _)
civil(y, m, n) ==
    IF n < DaysInMonth(y, m) THEN [year |-> y, month |-> m, day |-> n + 1]
    ELSE IF m = 12 THEN civil(y + 1, 1, n - DaysInMonth(y, m))
    ELSE civil(y, m + 1, n - DaysInMonth(y, m))

\* The clock counts hours from 2024-01-01 00:00 local time.
DateOf(mtime) == civil(2024, 1, mtime \div 24)

Digit(n) == ToString(n % 10)
\* dt.format("%Y"), dt.format("%m"), dt.format("%d"), one token per character
FormatY(d) == <<Digit(d.year \div 1000), Digit(d.year \div 100), Digit(d.year \div 10), Digit(d.year)>>
FormatM(d) == <<Digit(d.month \div 10), Digit(d.month)>>
FormatD(d) == <<Digit(d.day \div 10), Digit(d.day)>>

\* The year is filled in also when the metadata cannot be read.
date_placeholders_year_always(resolved, path, fsys) ==
    LET dt == DateOf(IF path \in DOMAIN fsys THEN fsys[path].mtime ELSE 0)
        y == replace(resolved, "${year}", FormatY(dt))
    IN  IF path \in DOMAIN fsys
        THEN replace(replace(y, "${month}", FormatM(dt)), "${day}", FormatD(dt))
        ELSE y

\* Lines 131-139: the date placeholders, from the modified time, when the
\* metadata can be read.
date_placeholders(resolved, path, fsys) ==
    IF path \in DOMAIN fsys
    THEN LET dt == DateOf(fsys[path].mtime)
         IN  replace(replace(replace(resolved, "${year}", FormatY(dt)),
                             "${month}", FormatM(dt)),
                     "${day}", FormatD(dt))
    ELSE resolved

\* A reply that is not NO counts as a match.
matches_prompt_lenient(reply) == reply # "NO"

\* AiOracle::matches_prompt: true when the reply holds YES; reply is "YES",
\* "NO", or "error" for a transport, timeout or parse failure.
matches_prompt(reply) == reply = "YES"

\* AiOracle::suggest_name: the cleaned reply, or the stem of the file name
\* when the call fails or the cleaned reply is empty (reply = None).
suggest_name(fname, reply) ==
    IF IsSome(reply) THEN Unwrap(reply) ELSE file_stem(fname)

\* suggested: what AiOracle::suggest_name returns (its own fallback is the
\* stem of the file name).
resolve_placeholders(rule, path, fsys, aiOn, suggested) ==
    LET stem == file_stem(path)
        filename == file_name(path)
        r1 == replace(rule.target, "${name}", stem)
        r2 == replace(r1, "${filename}", filename)
        r3 == IF contains(r2, "${ai_name}")
              THEN IF aiOn THEN replace(r2, "${ai_name}", suggested)
                   ELSE replace(r2, "${ai_name}", stem)
              ELSE r2
        r4 == IF IsSome(extension(path))
              THEN replace(r3, "${ext}", Unwrap(extension(path)))
              ELSE r3
    IN  date_placeholders(r4, path, fsys)

\* What suggest_name can return for a file: a cleaned suggestion of the
\* model, or the stem when the call fails.  Asked only when the target,
\* after the name substitutions, holds ${ai_name} and an oracle is configured.
Suggestions(rule, path, aiOn) ==
    IF aiOn /\ contains(rule.target, "${ai_name}")
    THEN {<<"ai_doc">>, file_stem(path)}
    ELSE {file_stem(path)}

\* ai.rs 149-151, 195 and 202: the calls suggest_name makes of its reporter:
\* one when it starts, one more with the cleaned suggestion or with the
\* error of the request; a reply that cannot be used is not reported.
rename_reports(rule, path, aiOn, suggested) ==
    IF aiOn /\ contains(rule.target, "${ai_name}")
    THEN IF suggested = file_stem(path) THEN {1, 2} ELSE {2}
    ELSE {0}

\* The resolved string is always taken as a directory.
resolve_target_path_always_dir(rule, path, fsys, aiOn, suggested, base) ==
    LET resolved_target == resolve_placeholders(rule, path, fsys, aiOn, suggested)
    IN  join(IF is_absolute(resolved_target) THEN resolved_target
             ELSE join(base, resolved_target),
             file_name(path))

resolve_target_path(rule, path, fsys, aiOn, suggested, base) ==
    LET has_filename_placeholder ==
            \/ contains(rule.target, "${ai_name}")
            \/ contains(rule.target, "${ext}")
            \/ contains(rule.target, "${name}")
            \/ contains(rule.target, "${filename}")
        resolved_target == resolve_placeholders(rule, path, fsys, aiOn, suggested)
        target_dir == IF is_absolute(resolved_target) THEN resolved_target
                      ELSE join(base, resolved_target)
    IN  IF has_filename_placeholder THEN target_dir
        ELSE join(target_dir, file_name(path))

\* A file whose content another file already has becomes a link to it.
process_single_file_dedup(path, fsys, rules, r, aiOn, suggested, base) ==
    IF path \notin DOMAIN fsys THEN None
    ELSE IF r = 0 THEN None
    ELSE LET target_path == resolve_target_path(rules[r], path, fsys, aiOn, suggested, base)
             same == { q \in DOMAIN fsys \ {path} : fsys[q].content = fsys[path].content }
         IN  IF path = target_path THEN None
             ELSE Some([from |-> path, to |-> target_path,
                        op_type |-> IF same = {} THEN [tag |-> "Move", original |-> <<>>]
                                    ELSE [tag |-> "HardLink",
                                          original |-> CHOOSE q \in same : TRUE],
                        rule_name |-> Some(rules[r].name)])

\* process_single_file (the watch path): None for a path that is not a
\* regular file or matches no rule, or whose target is the path itself;
\* otherwise a Move to the resolved target.  r is the rule match_rule
\* returned (0 for none).
process_single_file(path, fsys, rules, r, aiOn, suggested, base) ==
    IF path \notin DOMAIN fsys THEN None
    ELSE IF r = 0 THEN None
    ELSE LET target_path == resolve_target_path(rules[r], path, fsys, aiOn, suggested, base)
         IN  IF path = target_path THEN None
             ELSE Some([from |-> path, to |-> target_path,
                        op_type |-> [tag |-> "Move", original |-> <<>>],
                        rule_name |-> Some(rules[r].name)])

(***************************************************************************)
(* Conflict resolver                                                       *)
(***************************************************************************)
\* Path::exists: a regular file or a directory is there.
exists(p, fsys, dirset) == p \in DOMAIN fsys \/ p \in dirset

\* format!("{} ({})", stem, i) or format!("{} ({}).{}", stem, i, ext),
\* joined to the destination's directory.
Candidate(to, i) ==
    LET stem == file_stem(to)
        ext == IF IsSome(extension(to)) THEN Unwrap(extension(to)) ELSE <<>>
        new_name == IF ext = <<>>
                    THEN stem \o <<" (" \o ToString(i) \o ")">>
                    ELSE stem \o <<" (" \o ToString(i) \o ")">> \o <<".">> \o ext
    IN  join(parent(to), new_name)

\* The scan runs downwards: the largest free i is returned.
last_free(to, lo, hi, fsys, dirset) ==
    LET free == { i \in lo..hi : ~exists(Candidate(to, i), fsys, dirset) }
    IN  IF free = {} THEN 0 ELSE CHOOSE i \in free : \A j \in free : j <= i

\* The smallest i in lo..hi whose candidate does not exist, 0 when all
\* exist: the loop's scan in increasing i, split in halves so that the
\* evaluation stays shallow.
RECURSIVE first_free(_, _, _, _, _)
first_free(to, lo, hi, fsys, dirset) ==
    IF lo > hi THEN 0
    ELSE IF lo = hi
         THEN IF ~exists(Candidate(to, lo), fsys, dirset) THEN lo ELSE 0
         ELSE LET mid == (lo + hi) \div 2
                  low == first_free(to, lo, mid, fsys, dirset)
              IN  IF low # 0 THEN low ELSE first_free(to, mid + 1, hi, fsys, dirset)

\* The loop falls through with its last candidate instead of the error.
probe_reuse(to, fsys, dirset) ==
    LET i == first_free(to, 1, RenameLimit, fsys, dirset)
    IN  [kind |-> "ok", path |-> Candidate(to, IF i = 0 THEN RenameLimit ELSE i)]

\* for i in 1..999: the first candidate that does not exist, or the error.
probe(to, fsys, dirset) ==
    LET i == first_free(to, 1, RenameLimit, fsys, dirset)
    IN  IF i = 0 THEN [kind |-> "err", path |-> to]
        ELSE [kind |-> "ok", path |-> Candidate(to, i)]

\* The strategy handle_conflict reads from the rule it re-matches.
strategy_of(rule) ==
    IF IsSome(rule.conflict) THEN Unwrap(rule.conflict) ELSE DefaultStrategy

\* The Skip arm is missing: Skip is resolved like Rename.
handle_conflict_no_skip(op, fsys, dirset, rules, aiOn, answers, now) ==
    IF ~exists(op.to, fsys, dirset) THEN [kind |-> "ok", path |-> op.to]
    ELSE LET r == match_rule(op.from, fsys, rules, aiOn, answers, now)
         IN  IF r = 0 THEN [kind |-> "panic", path |-> op.to]
             ELSE CASE strategy_of(rules[r]) = "Overwrite" -> [kind |-> "ok", path |-> op.to]
                    [] OTHER -> probe(op.to, fsys, dirset)

\* The result of handle_conflict: kind "ok" is Ok(Some(path)), "skip" is
\* Ok(None), "err" is Err, "panic" the unwrap of a failed re-match.
handle_conflict(op, fsys, dirset, rules, aiOn, answers, now) ==
    IF ~exists(op.to, fsys, dirset) THEN [kind |-> "ok", path |-> op.to]
    ELSE LET r == match_rule(op.from, fsys, rules, aiOn, answers, now)
         IN  IF r = 0 THEN [kind |-> "panic", path |-> op.to]
             ELSE CASE strategy_of(rules[r]) = "Skip" -> [kind |-> "skip", path |-> op.to]
                    [] strategy_of(rules[r]) = "Overwrite" -> [kind |-> "ok", path |-> op.to]
                    [] OTHER -> probe(op.to, fsys, dirset)

(***************************************************************************)
(* Journal (journal.rs)                                                    *)
(*                                                                         *)
(* An operation is [from, to, op_type, rule_name]; op_type is              *)
(* [tag |-> "Move"] or [tag |-> "HardLink", original |-> path] (Move       *)
(* carries the empty path).  The journal file is None while it does not    *)
(* exist; otherwise Some([lines, eol]): its text as a sequence of lines,   *)
(* each line a sequence of pieces [t, op], and whether the text ends with  *)
(* a newline.  A piece is the compact JSON of an operation (t = "op"), or  *)
(* a part of the pretty-printed document: its opening lines ("open"), the  *)
(* lines of one element of "operations" ("item") or its closing lines      *)
(* ("close").                                                              *)
(***************************************************************************)
Move == [tag |-> "Move", original |-> <<>>]
HardLink(original) == [tag |-> "HardLink", original |-> original]

Operation(from, to, op_type, rule_name) ==
    [from |-> from, to |-> to, op_type |-> op_type, rule_name |-> rule_name]

Piece(t, op) == [t |-> t, op |-> op]

\* serde_json::to_string(op): one line of compact JSON.
to_string(op) == <<Piece("op", op)>>

\* serde_json::to_string_pretty(entry): the document over several lines,
\* ending without a newline.
to_string_pretty(operations) ==
    <<(<<Piece("open", <<>>)>>)>>
        \o [i \in DOMAIN operations |-> <<Piece("item", operations[i])>>]
        \o <<(<<Piece("close", <<>>)>>)>>

\* The line is written at the start of the file instead of its end.
append_at_start(file, op) ==
    IF IsSome(file)
    THEN Some([Unwrap(file) EXCEPT !.lines = <<to_string(op)>> \o @])
    ELSE Some([lines |-> <<to_string(op)>>, eol |-> TRUE])

\* The JSON is written without the newline after it.
append_without_newline(file, op) ==
    IF IsSome(file) /\ Unwrap(file).lines # <<>>
    THEN LET f == Unwrap(file)
         IN  IF f.eol
             THEN Some([lines |-> Append(f.lines, to_string(op)), eol |-> FALSE])
             ELSE Some([lines |-> [f.lines EXCEPT ![Len(f.lines)] = @ \o to_string(op)],
                        eol |-> FALSE])
    ELSE Some([lines |-> <<to_string(op)>>, eol |-> FALSE])

\* JournalEntry::append_to_file: open with create and append, write the
\* operation's JSON and a newline.  After a text that does not end with a
\* newline the JSON continues the last line.
append_to_file(file, op) ==
    IF IsSome(file) /\ Unwrap(file).lines # <<>>
    THEN LET f == Unwrap(file)
         IN  IF f.eol
             THEN Some([lines |-> Append(f.lines, to_string(op)), eol |-> TRUE])
             ELSE Some([lines |-> [f.lines EXCEPT ![Len(f.lines)] = @ \o to_string(op)],
                        eol |-> TRUE])
    ELSE Some([lines |-> <<to_string(op)>>, eol |-> TRUE])

\* JournalEntry::save: the whole journal as one pretty-printed document.
save(operations) == Some([lines |-> to_string_pretty(operations), eol |-> FALSE])

\* serde_json::from_str::<JournalEntry>(&content): Some(operations) when the
\* whole text is one document.
from_str_entry(lines) ==
    IF /\ Len(lines) >= 2
       /\ \A i \in DOMAIN lines : Len(lines[i]) = 1
       /\ lines[1][1].t = "open"
       /\ lines[Len(lines)][1].t = "close"
       /\ \A i \in 2..(Len(lines) - 1) : lines[i][1].t = "item"
    THEN Some([i \in 1..(Len(lines) - 2) |-> lines[i + 1][1].op])
    ELSE None

\* serde_json::from_str::<Operation>(line): Some(op) when the line is the
\* JSON of one operation and nothing else.
from_str_operation(line) ==
    IF Len(line) = 1 /\ line[1].t = "op" THEN Some(line[1].op) ELSE None

\* content.lines().filter_map(|line| from_str(line).ok()).collect()
RECURSIVE parse_lines(_)
parse_lines(lines) ==
    IF lines = <<>> THEN <<>>
    ELSE IF IsSome(from_str_operation(Head(lines)))
         THEN <<Unwrap(from_str_operation(Head(lines)))>> \o parse_lines(Tail(lines))
         ELSE parse_lines(Tail(lines))

\* The text is read as lines only.
load_lines_only(file) == parse_lines(Unwrap(file).lines)

\* JournalEntry::load of an existing file: the document form first, the
\* line form second.
load(file) ==
    IF IsSome(from_str_entry(Unwrap(file).lines))
    THEN Unwrap(from_str_entry(Unwrap(file).lines))
    ELSE parse_lines(Unwrap(file).lines)

(***************************************************************************)
(* Bounds of the model                                                     *)
(***************************************************************************)
\* Files in the scanned directory.
NumFiles == 3
\* Distinct file contents among them.
NumContents == 2
\* File-system calls that fail in one run.
MaxFaults == 1
\* Times the undo command is run on the journal.
MaxUndoRuns == 2

(***************************************************************************)
(* State                                                                   *)
(***************************************************************************)
VARIABLES
    fs,            \* path -> file record, the regular files that exist
    dirs,          \* the directories that exist
    jfile,         \* the journal file
    now,           \* the clock, in hours
    faults,        \* failed file-system calls so far
    rules,         \* Config::rules
    aiOn,          \* Engine::ai is Some
    journal_path,  \* execute's journal_path is Some
    fs0,           \* the files when the run started
    phase,         \* "plan", "exec", "done", "saved", "crashed", "panicked",
                   \* "undo", "undone", "undoerr"
    files,         \* dry_run: the scanned paths
    tpc,           \* dry_run: where each task is
    thash,         \* dry_run: each task's digest, Option
    tres,          \* dry_run: each task's result, Option<Operation>
    seen_hashes,   \* dry_run: digest -> first destination
    hlock,         \* dry_run: holder of the seen_hashes mutex, 0 if free
    current,       \* dry_run: the progress counter
    clock,         \* dry_run: holder of the counter's mutex, 0 if free
    sink,          \* dry_run: <<count, kind>> -> how many times on_progress
                   \* was called with that count by a report of that kind
    ops,           \* execute: the planned operations
    idx,           \* execute: position in ops (the loop's i + 1)
    step,          \* execute: "dir", "conflict", "fs1", "fs2", "record"
    final_to,      \* execute: the destination handle_conflict returned
    journal,       \* execute: journal.operations
    outcome,       \* execute: per operation [state, conflict, strategy, final,
                   \* logged]: state is "planned", "skipped", "failed",
                   \* "executed" or "journaled"; conflict tells whether the
                   \* destination existed, strategy which policy
                   \* handle_conflict applied, final the destination it
                   \* returned, logged whether the append to the file
                   \* succeeded, report the kind of message given to on_progress
    uops,          \* undo: the loaded operations
    upos,          \* undo: entries still to visit
    count,         \* undo: files restored
    undoLog,       \* undo: the entries visited, in order: [k, moved]
    undoRuns,      \* undo: how many times the command was started
    call           \* match_rule called on its own: None, or Some of
                   \* [path, answers, rule]: the path classified, the
                   \* oracle's answers in that call, the rule returned

\* on_progress has not been called.
ReportKinds == {"status", "analyzed"}
NoReports == [c \in (0..NumFiles) \X ReportKinds |-> 0]

\* progress_cb(count, total, msg), n times, with a message of the kind.
Report(s, c, kind, n) == [s EXCEPT ![<<c, kind>>] = @ + n]

envVars == <<rules, aiOn, journal_path, fs0, call>>
planVars == <<files, tpc, thash, tres, seen_hashes, hlock, current, clock, sink>>
execVars == <<ops, idx, step, final_to, journal, outcome>>
undoVars == <<uops, upos, count, undoLog, undoRuns>>
vars == <<fs, dirs, jfile, now, faults, phase, envVars, planVars, execVars, undoVars>>

base_dir == <<"base">>

\* The k-th file of the scanned directory.
SrcPath(k) == join(base_dir, <<"f" \o ToString(k), ".", "txt">>)

Put(f, k, v) == (k :> v) @@ f
Del(f, k) == [q \in DOMAIN f \ {k} |-> f[q]]

(***************************************************************************)
(* Initial states: a directory of NumFiles files, a rule list, and the     *)
(* files that already lie where the first file is planned to go.           *)
(***************************************************************************)
txt == Some(<<(<<"txt">>)>>)

InDir == <<"D">>
SameName == <<"D", "/", "x", ".", "${ext}">>
OverFirst == <<"f1", ".", "${ext}">>
OverSecond == <<"f2", ".", "${ext}">>

AllTo(target, c) == <<Rule("all", txt, target, None, c)>>
BigOnly == <<Rule("big", txt, InDir, Some(2), Some("Skip"))>>
BigSmall == <<Rule("big", txt, InDir, Some(2), None),
              Rule("small", txt, OverFirst, None, None)>>
\* The small files go to the path of the second file.
BigSmallSecond == <<Rule("big", txt, InDir, Some(2), None),
                    Rule("small", txt, OverSecond, None, None)>>
\* One rule whose only predicate is the oracle's answer.
AsksOracle == <<[Rule("ask", None, SameName, None, None) EXCEPT
                    !.ai_prompt = Some("is this a report")]>>

\* Contents of the files: every assignment, and three named ones.
Contents == { c \in [1..NumFiles -> 1..NumContents] : c[1] = 1 }
AllEqual == [k \in 1..NumFiles |-> 1]
LastDiffers == [k \in 1..NumFiles |-> IF k = NumFiles THEN NumContents ELSE 1]
FirstDiffers == [k \in 1..NumFiles |-> IF k = 1 THEN 1 ELSE NumContents]
FirstBig == [k \in 1..NumFiles |-> IF k = 1 THEN NumContents ELSE 1]
LastSmall == [k \in 1..NumFiles |-> IF k = NumFiles THEN 1 ELSE NumContents]

\* Sets of rename candidates (0 is the planned destination itself) that
\* already exist: none, the destination, a run of candidates, a gap, all.
Free == {}
Taken == {0}
Run == {0, 1}
Gap == {0, 2}
Full == 0..RenameLimit

Scenario(rs, c, taken, jp) ==
    [rs |-> rs, c |-> c, taken |-> taken, jp |-> jp, ai |-> FALSE]

Scenarios ==
    { Scenario(AllTo(InDir, None), c, t, TRUE) : c \in Contents, t \in {Free, Taken} }
    \cup { Scenario(AllTo(InDir, Some("Rename")), LastDiffers, t, TRUE) : t \in {Run, Gap, Full} }
    \cup { Scenario(AllTo(InDir, s), c, Taken, TRUE) :
              s \in {Some("Skip"), Some("Overwrite")}, c \in {AllEqual, FirstDiffers} }
    \cup { Scenario(AllTo(SameName, s), LastDiffers, t, TRUE) :
              s \in {None, Some("Skip")}, t \in {Free, Taken} }
    \cup { Scenario(BigOnly, FirstDiffers, Taken, TRUE),
           Scenario(BigSmall, FirstBig, Free, TRUE),
           Scenario(BigSmall, AllEqual, Free, TRUE),
           Scenario(BigSmallSecond, LastSmall, Free, TRUE),
           Scenario(AllTo(InDir, None), AllEqual, Taken, FALSE),
           [Scenario(AsksOracle, LastDiffers, Taken, TRUE) EXCEPT !.ai = TRUE] }

\* A file of content c: files of one content have one size.
SrcFile(c) == [content |-> c, size |-> c, mtime |-> 0, sniff |-> None]
Foreign == [content |-> 0, size |-> 1, mtime |-> 0, sniff |-> None]

AllYes(rs) == [i \in DOMAIN rs |-> IsSome(rs[i].ai_prompt)]

\* Where the first file that matches a rule of rs is planned to go (the
\* oracle, if there is one, answering yes).
FirstDest(rs, srcs, ai) ==
    LET matches(k) == match_rule(SrcPath(k), srcs, rs, ai, AllYes(rs), 0) # 0
        k == CHOOSE i \in 1..NumFiles : matches(i) /\ \A j \in 1..(i - 1) : ~matches(j)
        r == match_rule(SrcPath(k), srcs, rs, ai, AllYes(rs), 0)
    IN  resolve_target_path(rs[r], SrcPath(k), srcs, ai, file_stem(SrcPath(k)), base_dir)

TakenPath(d, n) == IF n = 0 THEN d ELSE Candidate(d, n)

InitEnv(rs, c, taken, jp, ai) ==
    LET srcs == [p \in {SrcPath(k) : k \in 1..NumFiles} |->
                    SrcFile(c[CHOOSE k \in 1..NumFiles : SrcPath(k) = p])]
        d == FirstDest(rs, srcs, ai)
        pre == [p \in {TakenPath(d, n) : n \in taken} |-> Foreign]
    IN  /\ rules = rs
        /\ aiOn = ai
        /\ journal_path = jp
        /\ fs = pre @@ srcs
        /\ fs0 = pre @@ srcs
        /\ dirs = {base_dir} \cup (IF taken = {} THEN {} ELSE Ancestors(d))
        /\ jfile = None
        /\ now = 0
        /\ faults = 0

InitRun ==
    /\ phase = "plan"
    /\ files = [k \in 1..NumFiles |-> SrcPath(k)]
    /\ tpc = [k \in 1..NumFiles |-> "start"]
    /\ thash = [k \in 1..NumFiles |-> None]
    /\ tres = [k \in 1..NumFiles |-> None]
    /\ seen_hashes = <<>>
    /\ hlock = 0
    /\ current = 0
    /\ clock = 0
    /\ sink = NoReports
    /\ ops = <<>>
    /\ idx = 1
    /\ step = "dir"
    /\ final_to = None
    /\ journal = <<>>
    /\ outcome = <<>>
    /\ uops = <<>>
    /\ upos = 0
    /\ count = 0
    /\ undoLog = <<>>
    /\ undoRuns = 0
    /\ call = None

Init ==
    /\ \E sc \in Scenarios : InitEnv(sc.rs, sc.c, sc.taken, sc.jp, sc.ai)
    /\ InitRun

(***************************************************************************)
(* dry_run: one task per scanned file (engine.rs 179-225)                  *)
(***************************************************************************)
\* calculate_hash: SHA-256 of the content; contents are told apart by
\* their digests.
calculate_hash(file) == file.content

Fault == faults < MaxFaults /\ faults' = faults + 1
NoFault == faults' = faults

\* The file whose digest failed is not planned.
on_hash_error_drop(op) == None

\* Lines 205-214: the digest failed: the file is planned as a plain Move.
on_hash_error(op) == Some([op EXCEPT !.op_type = Move])

\* Lines 184-190, the reporter given to match_rule and resolve_target_path:
\* it locks the counter, passes the count as it stands to on_progress and
\* drops the guard.  n is the number of its calls; it waits while another
\* task holds the counter's lock.
reporter(t, n) ==
    /\ n > 0 => clock = 0
    /\ sink' = Report(sink, current, "status", n)

\* Lines 193-197 and 205-217: classify, resolve the target, hash.
Analyze(t) ==
    /\ phase = "plan"
    /\ tpc[t] = "start"
    /\ \E answers \in OracleAnswers(rules, aiOn) :
         LET path == files[t]
             r == match_rule(path, fs, rules, aiOn, answers, now)
             asked == queries(path, fs, rules, aiOn, answers, now)
         IN  IF r = 0
             THEN /\ reporter(t, asked * reports_per_query)
                  /\ tpc' = [tpc EXCEPT ![t] = "count"]
                  /\ UNCHANGED <<thash, tres, faults>>
             ELSE \E suggested \in Suggestions(rules[r], path, aiOn) :
                  \E renaming \in rename_reports(rules[r], path, aiOn, suggested) :
                    LET target_path == resolve_target_path(rules[r], path, fs, aiOn,
                                                           suggested, base_dir)
                        op == Operation(path, target_path, Move, Some(rules[r].name))
                    IN  /\ reporter(t, asked * reports_per_query + renaming)
                        /\ \/ /\ NoFault
                              /\ thash' = [thash EXCEPT ![t] = Some(calculate_hash(fs[path]))]
                              /\ tres' = [tres EXCEPT ![t] = Some(op)]
                              /\ tpc' = [tpc EXCEPT ![t] = "lock_hashes"]
                           \/ /\ Fault
                              /\ tres' = [tres EXCEPT ![t] = on_hash_error(op)]
                              /\ tpc' = [tpc EXCEPT ![t] = "count"]
                              /\ UNCHANGED thash
    /\ UNCHANGED <<fs, dirs, jfile, now, phase, envVars, execVars, undoVars,
                   files, seen_hashes, hlock, current, clock>>

\* Line 198: seen_hashes.lock()
LockHashes(t) ==
    /\ phase = "plan"
    /\ tpc[t] = "lock_hashes"
    /\ hlock = 0
    /\ hlock' = t
    /\ tpc' = [tpc EXCEPT ![t] = "register"]
    /\ UNCHANGED <<fs, dirs, jfile, now, faults, phase, envVars, execVars, undoVars,
                   files, thash, tres, seen_hashes, current, clock, sink>>

\* A lookup that misses an entry another task has made.
lookup_stale(table, hash) == None

\* hashes.get(&hash)
lookup(table, hash) == IF hash \in DOMAIN table THEN Some(table[hash]) ELSE None

\* The guard of the digest table outlives the block: the task goes on to
\* the counter with the lock held.
Register_holding(t) ==
    /\ phase = "plan"
    /\ tpc[t] = "register"
    /\ hlock = t
    /\ LET hash == Unwrap(thash[t])
           op == Unwrap(tres[t])
           found == lookup(seen_hashes, hash)
       IN  IF IsSome(found)
           THEN /\ tres' = [tres EXCEPT ![t] = Some([op EXCEPT !.op_type = HardLink(Unwrap(found))])]
                /\ UNCHANGED seen_hashes
           ELSE /\ seen_hashes' = Put(seen_hashes, hash, op.to)
                /\ UNCHANGED tres
    /\ hlock' = hlock
    /\ tpc' = [tpc EXCEPT ![t] = "count"]
    /\ UNCHANGED <<fs, dirs, jfile, now, faults, phase, envVars, execVars, undoVars,
                   files, thash, current, clock, sink>>

\* Lines 199-204, under the lock; the guard is dropped at the block's end.
Register(t) ==
    /\ phase = "plan"
    /\ tpc[t] = "register"
    /\ hlock = t
    /\ LET hash == Unwrap(thash[t])
           op == Unwrap(tres[t])
           found == lookup(seen_hashes, hash)
       IN  IF IsSome(found)
           THEN /\ tres' = [tres EXCEPT ![t] = Some([op EXCEPT !.op_type = HardLink(Unwrap(found))])]
                /\ UNCHANGED seen_hashes
           ELSE /\ seen_hashes' = Put(seen_hashes, hash, op.to)
                /\ UNCHANGED tres
    /\ hlock' = 0
    /\ tpc' = [tpc EXCEPT ![t] = "count"]
    /\ UNCHANGED <<fs, dirs, jfile, now, faults, phase, envVars, execVars, undoVars,
                   files, thash, current, clock, sink>>

\* Line 219: current.lock()
LockCount(t) ==
    /\ phase = "plan"
    /\ tpc[t] = "count"
    /\ clock = 0
    /\ clock' = t
    /\ tpc' = [tpc EXCEPT ![t] = "incr"]
    /\ UNCHANGED <<fs, dirs, jfile, now, faults, phase, envVars, execVars, undoVars,
                   files, thash, tres, seen_hashes, hlock, current, sink>>

\* Lines 220-223: count, report, return; the guard is dropped on return.
Count(t) ==
    /\ phase = "plan"
    /\ tpc[t] = "incr"
    /\ clock = t
    /\ current' = current + 1
    /\ sink' = Report(sink, current + 1, "analyzed", 1)
    /\ clock' = 0
    /\ tpc' = [tpc EXCEPT ![t] = "done"]
    /\ UNCHANGED <<fs, dirs, jfile, now, faults, phase, envVars, execVars, undoVars,
                   files, thash, tres, seen_hashes, hlock>>

\* filter_map(...).collect(): the results that are Some, in the order of files.
RECURSIVE collect(_)
collect(res) ==
    IF res = <<>> THEN <<>>
    ELSE IF IsSome(Head(res)) THEN <<Unwrap(Head(res))>> \o collect(Tail(res))
    ELSE collect(Tail(res))

\* Lines 225-227 and 234-237: dry_run returns, execute starts its loop.
Collect ==
    /\ phase = "plan"
    /\ \A t \in DOMAIN files : tpc[t] = "done"
    /\ ops' = collect(tres)
    /\ outcome' = [k \in DOMAIN collect(tres) |->
                       [state |-> "planned", conflict |-> FALSE,
                        strategy |-> "none", final |-> None, taken |-> FALSE,
                        logged |-> FALSE, report |-> ""]]
    /\ phase' = "exec"
    /\ UNCHANGED <<fs, dirs, jfile, now, faults, envVars, planVars, undoVars,
                   idx, step, final_to, journal>>

(***************************************************************************)
(* execute: the sequential loop over the planned operations                *)
(* (engine.rs 239-291).  move_file is fs_extra's with CopyOptions::new():  *)
(* it copies to a destination that must not exist, then removes the        *)
(* source.                                                                 *)
(***************************************************************************)
\* The loop goes on to the next operation; st is the state this one ends in.
Finish(st, msg) ==
    /\ outcome' = [outcome EXCEPT ![idx].state = st, ![idx].report = msg]
    /\ idx' = idx + 1
    /\ step' = "dir"
    /\ final_to' = None

\* The error of the file-system call is dropped and the operation recorded.
AfterErrorRecorded ==
    /\ step' = "record"
    /\ outcome' = [outcome EXCEPT ![idx].state = "executed"]
    /\ UNCHANGED <<idx, final_to>>

\* Lines 285-287: the file-system call failed: report it, record nothing.
AfterError == Finish("failed", "Error (Move)")

\* Lines 240-246: create the destination's directory if it is missing.
ExecDir ==
    /\ phase = "exec"
    /\ idx <= Len(ops)
    /\ step = "dir"
    /\ LET target_parent == parent(ops[idx].to)
       IN  IF exists(target_parent, fs, dirs)
           THEN /\ step' = "conflict"
                /\ UNCHANGED <<dirs, faults, idx, final_to, outcome>>
           ELSE \/ /\ NoFault
                   /\ dirs' = dirs \cup Ancestors(ops[idx].to)
                   /\ step' = "conflict"
                   /\ UNCHANGED <<idx, final_to, outcome>>
                \/ /\ Fault
                   /\ Finish("failed", "Error (Dir)")
                   /\ UNCHANGED dirs
    /\ UNCHANGED <<fs, jfile, now, phase, envVars, planVars, undoVars, ops, journal>>

\* Lines 248-258: handle_conflict and the three ways it ends.
ExecConflict ==
    /\ phase = "exec"
    /\ idx <= Len(ops)
    /\ step = "conflict"
    /\ \E answers \in OracleAnswers(rules, aiOn) :
         LET op == ops[idx]
             hc == handle_conflict(op, fs, dirs, rules, aiOn, answers, now)
             conflict == exists(op.to, fs, dirs)
             r == match_rule(op.from, fs, rules, aiOn, answers, now)
             noted == [outcome[idx] EXCEPT
                          !.conflict = conflict,
                          !.strategy = IF conflict /\ r # 0
                                       THEN strategy_of(rules[r]) ELSE "none",
                          !.final = IF hc.kind = "ok" THEN Some(hc.path) ELSE None,
                          !.taken = hc.kind = "ok" /\ exists(hc.path, fs, dirs)]
         IN  CASE hc.kind = "ok" ->
                    /\ final_to' = Some(hc.path)
                    /\ step' = "fs1"
                    /\ outcome' = [outcome EXCEPT ![idx] = noted]
                    /\ UNCHANGED <<idx, phase>>
               [] hc.kind = "panic" ->
                    /\ phase' = "panicked"
                    /\ UNCHANGED <<idx, step, final_to, outcome>>
               [] OTHER ->
                    /\ outcome' = [outcome EXCEPT
                          ![idx] = [noted EXCEPT
                                      !.state = IF hc.kind = "skip" THEN "skipped"
                                                ELSE "failed",
                                      !.report = IF hc.kind = "skip"
                                                 THEN "Skipped (Conflict)"
                                                 ELSE "Error (Conflict)"]]
                    /\ idx' = idx + 1
                    /\ step' = "dir"
                    /\ final_to' = None
                    /\ UNCHANGED phase
    /\ UNCHANGED <<fs, dirs, jfile, now, faults, envVars, planVars, undoVars, ops, journal>>

\* The copy replaces a file that is at the destination.
can_copy_over(from, to, fsys, dirset) ==
    /\ from \in DOMAIN fsys
    /\ to \notin dirset
    /\ parent(to) \in dirset

\* fs_extra copy: the source is a file, the destination does not exist and
\* its directory does.
can_copy(from, to, fsys, dirset) ==
    /\ from \in DOMAIN fsys
    /\ ~exists(to, fsys, dirset)
    /\ parent(to) \in dirset

\* Line 261, first half of move_file: copy the source to final_to.
ExecMoveCopy ==
    /\ phase = "exec"
    /\ idx <= Len(ops)
    /\ step = "fs1"
    /\ ops[idx].op_type.tag = "Move"
    /\ LET from == ops[idx].from
           to == Unwrap(final_to)
       IN  IF can_copy(from, to, fs, dirs)
           THEN \/ /\ NoFault
                   /\ fs' = Put(fs, to, fs[from])
                   /\ step' = "fs2"
                   /\ UNCHANGED <<idx, final_to, outcome>>
                \/ /\ Fault
                   /\ AfterError
                   /\ UNCHANGED fs
           ELSE /\ AfterError
                /\ UNCHANGED <<fs, faults>>
    /\ UNCHANGED <<dirs, jfile, now, phase, envVars, planVars, undoVars, ops, journal>>

\* Line 261, second half of move_file: remove the source.
ExecMoveRemove ==
    /\ phase = "exec"
    /\ idx <= Len(ops)
    /\ step = "fs2"
    /\ ops[idx].op_type.tag = "Move"
    /\ \/ /\ NoFault
          /\ fs' = Del(fs, ops[idx].from)
          /\ step' = "record"
          /\ outcome' = [outcome EXCEPT ![idx].state = "executed"]
          /\ UNCHANGED <<idx, final_to>>
       \/ /\ Fault
          /\ AfterError
          /\ UNCHANGED fs
    /\ UNCHANGED <<dirs, jfile, now, phase, envVars, planVars, undoVars, ops, journal>>

\* Lines 263-264 and 267-269: remove the duplicate, if it is there.
ExecLinkRemove ==
    /\ phase = "exec"
    /\ idx <= Len(ops)
    /\ step = "fs1"
    /\ ops[idx].op_type.tag = "HardLink"
    /\ IF ops[idx].from \in DOMAIN fs
       THEN \/ /\ NoFault
               /\ fs' = Del(fs, ops[idx].from)
               /\ step' = "fs2"
               /\ UNCHANGED <<idx, final_to, outcome>>
            \/ /\ Fault
               /\ AfterError
               /\ UNCHANGED fs
       ELSE /\ step' = "record"
            /\ outcome' = [outcome EXCEPT ![idx].state = "executed"]
            /\ UNCHANGED <<fs, faults, idx, final_to>>
    /\ UNCHANGED <<dirs, jfile, now, phase, envVars, planVars, undoVars, ops, journal>>

\* std::fs::hard_link: the original is a file, the link does not exist and
\* its directory does.
can_link(original, link, fsys, dirset) ==
    /\ original \in DOMAIN fsys
    /\ ~exists(link, fsys, dirset)
    /\ parent(link) \in dirset

\* Line 265: link final_to to the canonical path recorded at planning.
ExecLinkLink ==
    /\ phase = "exec"
    /\ idx <= Len(ops)
    /\ step = "fs2"
    /\ ops[idx].op_type.tag = "HardLink"
    /\ LET original_path == ops[idx].op_type.original
           to == Unwrap(final_to)
       IN  IF can_link(original_path, to, fs, dirs)
           THEN \/ /\ NoFault
                   /\ fs' = Put(fs, to, fs[original_path])
                   /\ step' = "record"
                   /\ outcome' = [outcome EXCEPT ![idx].state = "executed"]
                   /\ UNCHANGED <<idx, final_to>>
                \/ /\ Fault
                   /\ AfterError
                   /\ UNCHANGED fs
           ELSE /\ AfterError
                /\ UNCHANGED <<fs, faults>>
    /\ UNCHANGED <<dirs, jfile, now, phase, envVars, planVars, undoVars, ops, journal>>

\* The operation is put in front of the others.
push_front(operations, op) == <<op>> \o operations

\* Line 283, Vec::push: the operation becomes the last one.
push(operations, op) == Append(operations, op)

\* The operation whose append failed is left out of the journal returned.
after_append_error_dropped(operations, op) == operations

\* Lines 281-283 when append_to_file fails: its result is dropped (let _ =)
\* and the operation is pushed all the same.
after_append_error(operations, op) == push(operations, op)

\* Lines 274-284: report, append the final operation to the journal file
\* and push it on the in-memory journal.
ExecRecord ==
    /\ phase = "exec"
    /\ idx <= Len(ops)
    /\ step = "record"
    /\ LET final_op == [ops[idx] EXCEPT !.to = Unwrap(final_to)]
           done == [outcome EXCEPT ![idx].state = "journaled", ![idx].report = "Done"]
       IN  \/ /\ journal_path
              /\ NoFault
              /\ jfile' = append_to_file(jfile, final_op)
              /\ journal' = push(journal, final_op)
              /\ outcome' = [done EXCEPT ![idx].logged = TRUE]
           \/ /\ journal_path
              /\ Fault
              /\ journal' = after_append_error(journal, final_op)
              /\ outcome' = done
              /\ UNCHANGED jfile
           \/ /\ ~journal_path
              /\ journal' = push(journal, final_op)
              /\ outcome' = done
              /\ UNCHANGED <<jfile, faults>>
    /\ idx' = idx + 1
    /\ step' = "dir"
    /\ final_to' = None
    /\ UNCHANGED <<fs, dirs, now, phase, envVars, planVars, undoVars, ops>>

\* Line 291: the loop is over, execute returns the journal.
ExecReturn ==
    /\ phase = "exec"
    /\ idx > Len(ops)
    /\ phase' = "done"
    /\ UNCHANGED <<fs, dirs, jfile, now, faults, envVars, planVars, execVars, undoVars>>

\* main.rs 128-136: the caller saves a non-empty journal as one document.
Save ==
    /\ phase = "done"
    /\ jfile' = IF journal = <<>> THEN jfile ELSE save(journal)
    /\ phase' = "saved"
    /\ UNCHANGED <<fs, dirs, now, faults, envVars, planVars, execVars, undoVars>>

\* The run is interrupted (the process is killed) during execute.
Crash ==
    /\ phase = "exec"
    /\ phase' = "crashed"
    /\ UNCHANGED <<fs, dirs, jfile, now, faults, envVars, planVars, execVars, undoVars>>

(***************************************************************************)
(* undo (main.rs 139-156)                                                  *)
(***************************************************************************)
\* Lines 140-142: load the journal; a missing file is an error.
UndoStart ==
    /\ phase \in {"saved", "crashed", "undone", "undoerr"}
    /\ undoRuns < MaxUndoRuns
    /\ undoRuns' = undoRuns + 1
    /\ IF IsSome(jfile)
       THEN /\ uops' = load(jfile)
            /\ upos' = Len(load(jfile))
            /\ phase' = "undo"
       ELSE /\ phase' = "undoerr"
            /\ uops' = <<>>
            /\ upos' = 0
    /\ count' = 0
    /\ undoLog' = <<>>
    /\ UNCHANGED <<fs, dirs, jfile, now, faults, envVars, planVars, execVars>>

\* The entries taken in their recorded order.
fwd_next(operations, n) == Len(operations) - n + 1

\* journal.operations.iter().rev(): the position of the entry it yields
\* when n entries are still to come.
rev_next(operations, n) == n

\* A missing destination ends the command with an error.
undo_entry_strict(op, fsys, dirset, n, fault) ==
    IF exists(op.to, fsys, dirset) /\ can_copy(op.to, op.from, fsys, dirset) /\ fault = "none"
    THEN [fs |-> Del(Put(fsys, op.from, fsys[op.to]), op.to), count |-> n + 1, err |-> FALSE]
    ELSE [fs |-> fsys, count |-> n, err |-> TRUE]

\* The file is copied back over whatever is at the source path and stays
\* at the destination.
undo_entry_copy(op, fsys, dirset, n, fault) ==
    IF exists(op.to, fsys, dirset)
    THEN IF op.to \in DOMAIN fsys /\ fault = "none"
         THEN [fs |-> Put(fsys, op.from, fsys[op.to]), count |-> n + 1, err |-> FALSE]
         ELSE [fs |-> fsys, count |-> n, err |-> TRUE]
    ELSE [fs |-> fsys, count |-> n, err |-> FALSE]

\* The file is moved back over whatever is at the source path.
undo_entry_over(op, fsys, dirset, n, fault) ==
    IF exists(op.to, fsys, dirset)
    THEN IF op.to \in DOMAIN fsys /\ fault = "none"
         THEN [fs |-> Del(Put(fsys, op.from, fsys[op.to]), op.to), count |-> n + 1,
               err |-> FALSE]
         ELSE [fs |-> fsys, count |-> n, err |-> TRUE]
    ELSE [fs |-> fsys, count |-> n, err |-> FALSE]

\* Lines 146-153, one entry of the loop.  fault names the call of move_file
\* that fails, if one does: "copy", "remove" or "none".  The result: the
\* files afterwards, the count, and whether the command ends with the error.
undo_entry(op, fsys, dirset, n, fault) ==
    IF exists(op.to, fsys, dirset)
    THEN IF can_copy(op.to, op.from, fsys, dirset) /\ fault # "copy"
         THEN IF fault = "remove"
              THEN [fs |-> Put(fsys, op.from, fsys[op.to]), count |-> n, err |-> TRUE]
              ELSE [fs |-> Del(Put(fsys, op.from, fsys[op.to]), op.to), count |-> n + 1,
                    err |-> FALSE]
         ELSE [fs |-> fsys, count |-> n, err |-> TRUE]
    ELSE [fs |-> fsys, count |-> n, err |-> FALSE]

\* Lines 145-154: the loop's next entry; an error of move_file ends the
\* command.
UndoStep ==
    /\ phase = "undo"
    /\ upos > 0
    /\ \E fault \in {"none", "copy", "remove"} :
         LET k == rev_next(uops, upos)
             op == uops[k]
             res == undo_entry(op, fs, dirs, count, fault)
         IN  /\ IF fault = "none" THEN NoFault
                ELSE exists(op.to, fs, dirs) /\ can_copy(op.to, op.from, fs, dirs) /\ Fault
             /\ fs' = res.fs
             /\ count' = res.count
             /\ undoLog' = Append(undoLog,
                    [k |-> k,
                     moved |-> /\ op.to \in DOMAIN fs
                               /\ op.to \notin DOMAIN res.fs
                               /\ op.from \in DOMAIN res.fs
                               /\ res.fs[op.from] = fs[op.to]])
             /\ IF res.err
                THEN phase' = "undoerr" /\ UNCHANGED upos
                ELSE upos' = upos - 1 /\ UNCHANGED phase
    /\ UNCHANGED <<dirs, jfile, now, envVars, planVars, execVars, uops, undoRuns>>

\* Line 155: every entry was visited.
UndoDone ==
    /\ phase = "undo"
    /\ upos = 0
    /\ phase' = "undone"
    /\ UNCHANGED <<fs, dirs, jfile, now, faults, envVars, planVars, execVars, undoVars>>

Task(t) ==
    \/ Analyze(t)
    \/ LockHashes(t)
    \/ Register(t)
    \/ LockCount(t)
    \/ Count(t)

Next ==
    \/ \E t \in DOMAIN files : Task(t)
    \/ Collect
    \/ ExecDir
    \/ ExecConflict
    \/ ExecMoveCopy
    \/ ExecMoveRemove
    \/ ExecLinkRemove
    \/ ExecLinkLink
    \/ ExecRecord
    \/ ExecReturn
    \/ Save
    \/ Crash
    \/ UndoStart
    \/ UndoStep
    \/ UndoDone

Spec == Init /\ [][Next]_vars

\* The steps the program takes by itself: the tasks of the dry run's thread
\* pool, and the loop of execute and the saving of the journal, which run
\* on the caller's thread without waiting for anything.
Steps ==
    \/ \E t \in DOMAIN files : Task(t)
    \/ Collect
    \/ ExecDir
    \/ ExecConflict
    \/ ExecMoveCopy
    \/ ExecMoveRemove
    \/ ExecLinkRemove
    \/ ExecLinkLink
    \/ ExecRecord
    \/ ExecReturn
    \/ Save

\* A run that nobody interrupts: the steps of the program and the undo
\* commands of the user.
NextFair ==
    \/ Steps
    \/ UndoStart
    \/ UndoStep
    \/ UndoDone

\* The program is running: the dry run, execute, or the saving after it.
Running == phase \in {"plan", "exec", "done"}

Phases == {"plan", "exec", "done", "saved", "panicked", "crashed",
           "undo", "undone", "undoerr"}
TaskPositions == {"start", "lock_hashes", "register", "count", "incr", "done"}
StepNames == {"dir", "conflict", "fs1", "fs2", "record"}

\* The program takes a step: while it is running, a task, the loop of
\* execute or the command moves on to its next position.  Every step of
\* Steps is such a step, and a running program has one to take.
Moves ==
    /\ Running
    /\ phase' \in Phases
    /\ tpc' \in [DOMAIN files -> TaskPositions]
    /\ idx' \in 1..(NumFiles + 1)
    /\ step' \in StepNames

\* The positions of the program: of the command, of each task of the dry
\* run, of the loop of execute.
Counters == <<phase, tpc, idx, step>>

\* Every task of the pool is run to its end and the loop of execute goes on
\* while it has a step to take.
FairSpec == Init /\ [][NextFair]_vars /\ WF_Counters(Moves)

(***************************************************************************)
(* The classifier on its own: match_rule on one file under a list of two   *)
(* rules, the file, the rules and the clock drawn from the sets below.     *)
(***************************************************************************)
\* A rule that declares no predicate and no filter.
NoRule == Rule("r", None, InDir, None, None)

\* Rules of one predicate each, of two, and with filters.
RuleKinds ==
    { NoRule,
      [NoRule EXCEPT !.extensions = Some(<<(<<"TXT">>)>>)],
      [NoRule EXCEPT !.extensions = txt, !.min_size = Some(2)],
      [NoRule EXCEPT !.extensions = txt, !.max_age = Some([num |-> Some(1), unit |-> "d"])],
      [NoRule EXCEPT !.extensions = txt, !.max_age = Some([num |-> None, unit |-> "d"])],
      [NoRule EXCEPT !.extensions = Some(<<(<<"pdf">>)>>)],
      [NoRule EXCEPT !.mime = Some("image/*")],
      [NoRule EXCEPT !.mime = Some("application/pdf"), !.min_size = Some(2)],
      [NoRule EXCEPT !.type = Some("document")],
      [NoRule EXCEPT !.type = Some("image"), !.extensions = Some(<<(<<"log">>)>>)],
      [NoRule EXCEPT !.regex = Some([valid |-> TRUE, lang |-> {<<"a", ".", "txt">>}])],
      [NoRule EXCEPT !.regex = Some([valid |-> FALSE, lang |-> {<<"a", ".", "txt">>}])],
      [NoRule EXCEPT !.ai_prompt = Some("invoices")] }

RuleLists == { <<[r1 EXCEPT !.name = "r1"], [r2 EXCEPT !.name = "r2"]>> : r1, r2 \in RuleKinds }

\* What infer::get finds: nothing, a PNG image, a PDF document.
Sniffs ==
    { None,
      Some([ext |-> <<"png">>, mime |-> "image/png"]),
      Some([ext |-> <<"pdf">>, mime |-> "application/pdf"]) }

\* Files modified at hour 0, of size 1 or 2.
FileKinds == { [content |-> 1, size |-> n, mtime |-> 0, sniff |-> sn] : n \in 1..2, sn \in Sniffs }

PathKinds == { join(base_dir, n) : n \in { <<"a", ".", "txt">>, <<"a", ".", "TXT">>,
                                             <<"a", ".", "log">>, <<"a">> } }

\* The clock: the file is one hour or thirty hours old.
Clocks == {1, 30}

InitClassify ==
    /\ rules \in RuleLists
    /\ aiOn \in BOOLEAN
    /\ now \in Clocks
    /\ \E p \in PathKinds, f \in FileKinds :
          /\ fs = (p :> f)
          /\ fs0 = (p :> f)
          /\ files = <<p>>
    /\ journal_path = FALSE
    /\ dirs = {base_dir}
    /\ jfile = None
    /\ faults = 0
    /\ phase = "classify"
    /\ tpc = <<"start">>
    /\ thash = <<None>>
    /\ tres = <<None>>
    /\ seen_hashes = <<>>
    /\ hlock = 0
    /\ current = 0
    /\ clock = 0
    /\ sink = NoReports
    /\ ops = <<>>
    /\ idx = 1
    /\ step = "dir"
    /\ final_to = None
    /\ journal = <<>>
    /\ outcome = <<>>
    /\ uops = <<>>
    /\ upos = 0
    /\ count = 0
    /\ undoLog = <<>>
    /\ undoRuns = 0
    /\ call = None

\* One call of match_rule on the file, the oracle answering as it may.
Classify ==
    /\ phase = "classify"
    /\ \E answers \in OracleAnswers(rules, aiOn) :
          call' = Some([path |-> files[1], answers |-> answers,
                        rule |-> match_rule(files[1], fs, rules, aiOn, answers, now)])
    /\ phase' = "classified"
    /\ UNCHANGED <<fs, dirs, jfile, now, faults, rules, aiOn, journal_path, fs0,
                   planVars, execVars, undoVars>>

NextClassify == Classify

SpecClassify == InitClassify /\ [][NextClassify]_vars

(***************************************************************************)
(* The resolver on its own: match_rule, resolve_placeholders and           *)
(* resolve_target_path on one path, under a rule whose target is drawn     *)
(* from Targets, followed by a rule that takes every txt and gz file.      *)
(***************************************************************************)
Targets ==
    { <<"${ext}", "/", "${name}", "_copy">>,
      <<"backup", "/", "${filename}">>,
      <<"${year}", "-", "${month}">>,
      <<"${year}", "/", "${day}", "/", "${name}">>,
      <<"D">>,
      <<"/", "abs">>,
      <<"/", "abs", "/", "${name}">>,
      <<"${name}", "_", "${name}">>,
      <<"docs", "/", "${ai_name}", ".", "${ext}">>,
      <<"${ai_name}">> }

\* File names: with an extension, without one, with two dots, and one that
\* holds the text of a placeholder.
ResolveNames ==
    { <<"test", ".", "txt">>, <<"notes">>, <<"a", ".", "tar", ".", "gz">>,
      <<"${ext}", ".", "txt">> }

\* Modified at 2024-01-01, 2024-02-29 and 2025-01-01, in hours.
Mtimes == {0, 1416, 8784}

\* The file at the path, or no file there (its metadata cannot be read).
ResolveFiles ==
    { Some([content |-> 1, size |-> 1, mtime |-> m, sniff |-> sn]) :
        m \in Mtimes, sn \in {None, Some([ext |-> <<"png">>, mime |-> "image/png"])} }
    \cup {None}

\* The first rule: matched by the oracle, or by the extension txt.
ResolveRules ==
    { <<[NoRule EXCEPT !.name = "r1", !.target = t, !.ai_prompt = Some("reports")],
        [NoRule EXCEPT !.name = "r2", !.extensions = Some(<<(<<"txt">>), <<"gz">>>>)]>> :
        t \in Targets }
    \cup
    { <<[NoRule EXCEPT !.name = "r1", !.target = t, !.extensions = txt],
        [NoRule EXCEPT !.name = "r2", !.extensions = Some(<<(<<"txt">>), <<"gz">>>>)]>> :
        t \in Targets }

MatchReplies == {"YES", "NO", "error"}
NameReplies == {Some(<<"ai_doc">>), None}

InitResolve ==
    /\ rules \in ResolveRules
    /\ aiOn \in BOOLEAN
    /\ now = 8784
    /\ \E n \in ResolveNames, f \in ResolveFiles :
          LET p == join(base_dir, n)
          IN  /\ fs = IF IsSome(f) THEN (p :> Unwrap(f)) ELSE <<>>
              /\ fs0 = fs
              /\ files = <<p>>
    /\ journal_path = FALSE
    /\ dirs = {base_dir}
    /\ jfile = None
    /\ faults = 0
    /\ phase = "resolve"
    /\ tpc = <<"start">>
    /\ thash = <<None>>
    /\ tres = <<None>>
    /\ seen_hashes = <<>>
    /\ hlock = 0
    /\ current = 0
    /\ clock = 0
    /\ sink = NoReports
    /\ ops = <<>>
    /\ idx = 1
    /\ step = "dir"
    /\ final_to = None
    /\ journal = <<>>
    /\ outcome = <<>>
    /\ uops = <<>>
    /\ upos = 0
    /\ count = 0
    /\ undoLog = <<>>
    /\ undoRuns = 0
    /\ call = None

\* One classification and one resolution of the path under the first rule,
\* the oracle replying as it may to the match and to the naming request.
Resolve ==
    /\ phase = "resolve"
    /\ \E mreply \in MatchReplies, nreply \in NameReplies :
          LET path == files[1]
              answers == [i \in DOMAIN rules |->
                             aiOn /\ IsSome(rules[i].ai_prompt) /\ matches_prompt(mreply)]
              suggested == suggest_name(file_name(path), nreply)
          IN  call' = Some([path |-> path, answers |-> answers,
                            rule |-> match_rule(path, fs, rules, aiOn, answers, now),
                            mreply |-> mreply, nreply |-> nreply,
                            resolved |-> resolve_placeholders(rules[1], path, fs, aiOn,
                                                              suggested),
                            target |-> resolve_target_path(rules[1], path, fs, aiOn,
                                                           suggested, base_dir)])
    /\ phase' = "resolved"
    /\ UNCHANGED <<fs, dirs, jfile, now, faults, rules, aiOn, journal_path, fs0,
                   planVars, execVars, undoVars>>

NextResolve == Resolve

SpecResolve == InitResolve /\ [][NextResolve]_vars

(***************************************************************************)
(* The watch command (main.rs 165-197): one event per path of the watched  *)
(* directory, in any order; each event runs process_single_file and moves  *)
(* the file it returns an operation for.                                   *)
(***************************************************************************)
SubDir == join(base_dir, <<"sub">>)
Gone == join(base_dir, <<"gone", ".", "txt">>)

\* The paths events arrive for: the files, a directory, a path with no file.
WatchedPaths == [k \in 1..(NumFiles + 2) |->
                    IF k <= NumFiles THEN SrcPath(k)
                    ELSE IF k = NumFiles + 1 THEN SubDir ELSE Gone]

WatchRules == {AllTo(InDir, None), BigOnly, BigSmall}

InitWatch ==
    /\ rules \in WatchRules
    /\ aiOn = FALSE
    /\ now = 0
    /\ \E c \in Contents :
          /\ fs = [p \in {SrcPath(k) : k \in 1..NumFiles} |->
                      SrcFile(c[CHOOSE k \in 1..NumFiles : SrcPath(k) = p])]
          /\ fs0 = fs
    /\ files = WatchedPaths
    /\ journal_path = FALSE
    /\ dirs = {base_dir, SubDir}
    /\ jfile = None
    /\ faults = 0
    /\ phase = "watch"
    /\ tpc = [k \in DOMAIN WatchedPaths |-> "start"]
    /\ thash = [k \in DOMAIN WatchedPaths |-> None]
    /\ tres = [k \in DOMAIN WatchedPaths |-> None]
    /\ seen_hashes = <<>>
    /\ hlock = 0
    /\ current = 0
    /\ clock = 0
    /\ sink = NoReports
    /\ ops = <<>>
    /\ idx = 1
    /\ step = "dir"
    /\ final_to = None
    /\ journal = <<>>
    /\ outcome = <<>>
    /\ uops = <<>>
    /\ upos = 0
    /\ count = 0
    /\ undoLog = <<>>
    /\ undoRuns = 0
    /\ call = None

\* main.rs 177-191: the event for the t-th path: process_single_file, then
\* create the destination's directory and move the file; a failed move is
\* passed over.
WatchEvent(t) ==
    /\ phase = "watch"
    /\ tpc[t] = "start"
    /\ \E answers \in OracleAnswers(rules, aiOn) :
       \E r \in {match_rule(files[t], fs, rules, aiOn, answers, now)} :
       \E res \in {process_single_file(files[t], fs, rules, r, aiOn,
                                       file_stem(files[t]), base_dir)} :
          /\ tres' = [tres EXCEPT ![t] = res]
          /\ call' = Some([path |-> files[t], answers |-> answers, rule |-> r])
          /\ IF IsSome(res)
             THEN \E op \in {Unwrap(res)} :
                  \E made \in {dirs \cup Ancestors(op.to)} :
                     /\ ops' = Append(ops, op)
                     /\ dirs' = made
                     /\ fs' = IF can_copy(op.from, op.to, fs, made)
                              THEN Del(Put(fs, op.to, fs[op.from]), op.from)
                              ELSE fs
             ELSE UNCHANGED <<ops, dirs, fs>>
    /\ tpc' = [tpc EXCEPT ![t] = "done"]
    /\ UNCHANGED <<jfile, now, faults, phase, rules, aiOn, journal_path, fs0,
                   files, thash, seen_hashes, hlock, current, clock, sink,
                   idx, step, final_to, journal, outcome, undoVars>>

NextWatch == \E t \in DOMAIN files : WatchEvent(t)

SpecWatch == InitWatch /\ [][NextWatch]_vars

(***************************************************************************)
(* Properties                                                              *)
(***************************************************************************)
\* The task that planned an operation, and the digest it computed.
TaskOf(op) == CHOOSE t \in DOMAIN files : files[t] = op.from
DigestOf(op) == thash[TaskOf(op)]

\* The operation as it is recorded: with the destination handle_conflict chose.
FinalOp(k) == [ops[k] EXCEPT !.to = Unwrap(outcome[k].final)]

Positions == [k \in 1..Len(ops) |-> k]
IsJournaled(k) == outcome[k].state = "journaled"
IsLogged(k) == outcome[k].state = "journaled" /\ outcome[k].logged
IsCompleted(k) == outcome[k].state \in {"executed", "journaled"}
FinalOps(ks) == [i \in DOMAIN ks |-> FinalOp(ks[i])]

FileOps == IF IsSome(jfile) THEN load(jfile) ELSE <<>>

\* execute is running or has ended, and no undo has touched the files.
Executing == phase \in {"exec", "done", "saved", "crashed", "panicked"}

\* C1: after the dry run, among the planned operations whose files have the
\* same successfully computed digest exactly one is a Move, and every other
\* one is a HardLink to that Move's planned destination.
C1_SingleCanonical ==
    phase # "plan" =>
        \A h \in 1..NumContents :
            LET G == { k \in DOMAIN ops : DigestOf(ops[k]) = Some(h) }
            IN  G # {} =>
                  \E m \in G :
                     /\ ops[m].op_type = Move
                     /\ \A k \in G \ {m} : ops[k].op_type = HardLink(ops[m].to)

\* C1 happens: a later file registered first, so the earlier file of the
\* same digest is the link and the later one the canonical Move.
C1_Witness ==
    /\ phase = "exec"
    /\ \E k, m \in DOMAIN ops :
          /\ k < m
          /\ IsSome(DigestOf(ops[k]))
          /\ DigestOf(ops[k]) = DigestOf(ops[m])
          /\ ops[m].op_type = Move
          /\ ops[k].op_type = HardLink(ops[m].to)

\* The journal against the operations' states and the files.
C2_State ==
    phase # "plan" =>
        /\ journal = FinalOps(SelectSeq(Positions, IsJournaled))
        /\ phase \in {"exec", "crashed", "done"} =>
              \A i \in DOMAIN FileOps : \E j \in DOMAIN journal : FileOps[i] = journal[j]
        /\ \A k \in DOMAIN ops :
              outcome[k].state \in {"planned", "failed", "skipped", "executed"} =>
                  /\ \A j \in DOMAIN journal : journal[j].from # ops[k].from
                  /\ \A i \in DOMAIN FileOps : FileOps[i].from # ops[k].from
        /\ Executing =>
              \A k \in DOMAIN ops :
                 IsJournaled(k) =>
                    /\ FinalOp(k).to \in DOMAIN fs
                    /\ ops[k].op_type = Move =>
                          fs[FinalOp(k).to].content = fs0[ops[k].from].content

\* The step that pushes an entry on the journal.
C2_Step ==
    journal' # journal =>
        /\ journal'[Len(journal')].from \notin DOMAIN fs'
        /\ journal'[Len(journal')].to \in DOMAIN fs'

\* C2: the journal, in memory and on file, holds exactly operations whose
\* file-system effect completed: the in-memory journal is the sequence of
\* the operations that reached "journaled", the file holds only such
\* operations, a journaled destination exists (with the source's content
\* for a Move), and when an entry is pushed its source is gone and its
\* destination is there; a failed or skipped operation has no entry.
C2_JournalOnlyCompleted == []C2_State /\ [][C2_Step]_vars

\* C2 happens: one operation is journaled on file and another one failed.
C2_Witness ==
    /\ phase = "done"
    /\ \E k, f \in DOMAIN ops :
          /\ IsLogged(k)
          /\ outcome[f].state = "failed"

\* C3 as stated: during execute with a journal path, and after an
\* interruption, the file holds every completed operation in order, or all
\* of them but the most recent one.
C3_AllButLast ==
    (journal_path /\ phase \in {"exec", "crashed", "done"}) =>
        LET all == FinalOps(SelectSeq(Positions, IsCompleted))
        IN  \/ FileOps = all
            \/ all # <<>> /\ FileOps = SubSeq(all, 1, Len(all) - 1)

\* C3 amended: the file holds, in execution order, exactly the completed
\* operations whose append succeeded; a completed operation that is not in
\* the file is one whose append failed or the most recent one, which the
\* loop is about to record.
C3_LoggedButLast ==
    (journal_path /\ phase \in {"exec", "crashed", "done"}) =>
        /\ FileOps = FinalOps(SelectSeq(Positions, IsLogged))
        /\ \A k \in DOMAIN ops :
              (IsCompleted(k) /\ ~IsLogged(k)) =>
                  \/ outcome[k].state = "journaled"
                  \/ /\ k = idx
                     /\ step = "record"
                     /\ \A j \in DOMAIN ops : j > k => outcome[j].state = "planned"

\* C3 happens: the run is interrupted between an operation's effect and its
\* append, with an earlier operation on file.
C3_Witness ==
    /\ phase = "crashed"
    /\ journal_path
    /\ Len(FileOps) >= 1
    /\ \E k \in DOMAIN ops : outcome[k].state = "executed"

\* C4: after a complete execute and one undo that ran to its end, every
\* journaled file is back at its source path with its content and not at
\* its destination (where at most another journaled file is, back at its
\* own source path).
C4_RoundTrip ==
    (phase = "undone" /\ undoRuns = 1 /\ idx > Len(ops)) =>
        \A i \in DOMAIN uops :
            /\ uops[i].from \in DOMAIN fs
            /\ fs[uops[i].from].content = fs0[uops[i].from].content
            /\ \/ uops[i].to \notin DOMAIN fs
               \/ \E j \in DOMAIN uops : uops[j].from = uops[i].to

\* C5: undo visits the entries in the reverse of their recorded order.
C5_ReverseOrder ==
    \A i \in DOMAIN undoLog : undoLog[i].k = Len(uops) - i + 1

\* C5 happens: an undo of several entries ran to its end.
C5_Witness ==
    /\ phase = "undone"
    /\ Len(undoLog) >= 2
    /\ \E i \in DOMAIN undoLog : undoLog[i].moved

\* The entries the running undo moved back.
MovedBack == { i \in DOMAIN undoLog : undoLog[i].moved }

\* The step of undo at an entry whose destination is missing.
C6_SkipStep ==
    (phase = "undo" /\ upos > 0 /\ ~exists(uops[upos].to, fs, dirs)) =>
        /\ fs' = fs
        /\ dirs' = dirs
        /\ count' = count
        /\ phase' = "undo"
        /\ upos' = upos - 1

\* The count against the entries moved back.
C6_Count ==
    phase \in {"undo", "undone", "undoerr"} => count = Cardinality(MovedBack)

\* C6: during undo an entry whose recorded destination does not exist is
\* passed over: the files and directories stay as they are, the command
\* does not end with an error and goes on to the next entry, the count is
\* not raised; and the count is the number of entries moved back.
C6_MissingSkipped == []C6_Count /\ [][C6_SkipStep]_vars

\* C6 happens: an undo ran to its end, passed over an entry whose
\* destination was gone and moved another one back.
C6_Witness ==
    /\ phase = "undone"
    /\ count >= 1
    /\ \E i \in DOMAIN undoLog : ~undoLog[i].moved

\* The operation the loop of execute is at resolved a conflict by strategy s.
Resolving(s) ==
    /\ phase = "exec"
    /\ idx <= Len(ops)
    /\ outcome[idx].conflict
    /\ outcome[idx].strategy = s

\* The name carries a numeric suffix "(i)".
Suffixed(p) == \E i \in 1..RenameLimit : contains(p, " (" \o ToString(i) \o ")")

\* The steps of an operation that resolved its conflict by Rename.
C7_Kept ==
    (Resolving("Rename") /\ ops[idx].to \in DOMAIN fs) =>
        /\ ops[idx].to \in DOMAIN fs'
        /\ fs'[ops[idx].to] = fs[ops[idx].to]

\* Where an operation resolved by Rename writes.
C7_Elsewhere ==
    phase # "plan" =>
        \A k \in DOMAIN ops :
            (outcome[k].conflict /\ outcome[k].strategy = "Rename" /\ IsSome(outcome[k].final)) =>
                /\ Unwrap(outcome[k].final) # ops[k].to
                /\ Suffixed(Unwrap(outcome[k].final))

\* C7: under Rename an operation whose planned destination exists leaves
\* the file that is there at its path with its content, and writes at a
\* different path that carries a numeric suffix.
C7_RenameKeepsExisting == []C7_Elsewhere /\ [][C7_Kept]_vars

\* C8: under Rename with an existing destination the path handle_conflict
\* returns is the candidate of the smallest i in 1..998 whose path does not
\* exist: every smaller candidate exists.
C8_SmallestFree ==
    (Resolving("Rename") /\ step = "fs1") =>
        \E i \in 1..RenameLimit :
            /\ final_to = Some(Candidate(ops[idx].to, i))
            /\ ~exists(Candidate(ops[idx].to, i), fs, dirs)
            /\ \A j \in 1..(i - 1) : exists(Candidate(ops[idx].to, j), fs, dirs)

\* C8 happens: "D/f1.txt" and "D/f1 (1).txt" are taken and "D/f1 (2).txt"
\* is returned.
C8_Witness ==
    /\ Resolving("Rename")
    /\ step = "fs1"
    /\ ops[idx].to = <<"base", "/", "D", "/", "f1", ".", "txt">>
    /\ final_to = Some(<<"base", "/", "D", "/", "f1", " (2)", ".", "txt">>)
    /\ <<"base", "/", "D", "/", "f1", " (1)", ".", "txt">> \in DOMAIN fs

\* Every rename candidate of the path exists.
AllTaken(to) == \A i \in 1..RenameLimit : exists(Candidate(to, i), fs, dirs)

\* The step of execute that finds every candidate taken.
C9_Step ==
    (phase = "exec" /\ idx <= Len(ops) /\ step = "conflict"
        /\ outcome'[idx].conflict /\ outcome'[idx].strategy = "Rename"
        /\ AllTaken(ops[idx].to)) =>
        /\ fs' = fs
        /\ dirs' = dirs
        /\ journal' = journal
        /\ jfile' = jfile
        /\ outcome'[idx].state = "failed"
        /\ outcome'[idx].final = None
        /\ idx' = idx + 1
        /\ step' = "dir"
        /\ phase' = "exec"

\* A failed operation in the journal.
C9_NoEntry ==
    phase # "plan" =>
        \A k \in DOMAIN ops :
            outcome[k].state = "failed" =>
                /\ \A j \in DOMAIN journal : journal[j].from # ops[k].from
                /\ \A j \in DOMAIN FileOps : FileOps[j].from # ops[k].from

\* C9: when all 998 candidates exist the operation ends as failed: the
\* step that resolves the conflict changes no file, no directory and no
\* journal, and the loop goes on to the next operation; a failed operation
\* has no journal entry.
C9_ExhaustionFailsOne == []C9_NoEntry /\ [][C9_Step]_vars

\* C9 happens: an operation failed with all its candidates taken and a
\* later operation of the batch was journaled.
C9_Witness ==
    /\ phase = "done"
    /\ \E k, j \in DOMAIN ops :
          /\ k < j
          /\ outcome[k].state = "failed"
          /\ outcome[k].conflict
          /\ outcome[k].strategy = "Rename"
          /\ AllTaken(ops[k].to)
          /\ IsJournaled(j)

\* The step of execute that resolves a conflict by Skip.
C10_Step ==
    (phase = "exec" /\ idx <= Len(ops) /\ step = "conflict"
        /\ outcome'[idx].conflict /\ outcome'[idx].strategy = "Skip") =>
        /\ fs' = fs
        /\ dirs' = dirs
        /\ journal' = journal
        /\ jfile' = jfile
        /\ outcome'[idx].state = "skipped"
        /\ idx' = idx + 1

\* A skipped operation in the journal and its files.
C10_State ==
    phase # "plan" =>
        \A k \in DOMAIN ops :
            outcome[k].state = "skipped" =>
                /\ \A j \in DOMAIN journal : journal[j].from # ops[k].from
                /\ \A j \in DOMAIN FileOps : FileOps[j].from # ops[k].from
                /\ Executing =>
                      /\ ops[k].from \in DOMAIN fs
                      /\ fs[ops[k].from] = fs0[ops[k].from]
                      /\ exists(ops[k].to, fs, dirs)

\* C10: under Skip an operation whose destination exists is not performed:
\* the step that resolves the conflict changes no file, no directory and
\* no journal and ends the operation as skipped; a skipped operation has no
\* journal entry and its source stays at its path with its content.
C10_SkipLeavesAll == []C10_State /\ [][C10_Step]_vars

\* C10 happens: a Move and a HardLink were both skipped, and the run ended.
C10_Witness ==
    /\ phase = "done"
    /\ \E k, j \in DOMAIN ops :
          /\ outcome[k].state = "skipped"
          /\ ops[k].op_type = Move
          /\ outcome[j].state = "skipped"
          /\ ops[j].op_type.tag = "HardLink"

\* The operation has reached the state it ends in.
IsTerminal(k) == outcome[k].state \in {"failed", "skipped", "journaled"}

\* C11: under Overwrite an operation whose destination exists is resolved
\* to the destination itself and the destination is overwritten: the
\* operation ends journaled with that destination, which then holds the
\* source's content, and the source is gone.
C11_OverwriteReplaces ==
    phase # "plan" =>
        \A k \in DOMAIN ops :
            (outcome[k].conflict /\ outcome[k].strategy = "Overwrite" /\ IsTerminal(k)) =>
                /\ outcome[k].final = Some(ops[k].to)
                /\ IsJournaled(k)
                /\ \E j \in DOMAIN journal : journal[j] = ops[k]
                /\ Executing =>
                      /\ ops[k].from \notin DOMAIN fs
                      /\ fs[ops[k].to].content = fs0[ops[k].from].content

\* What the single-file path can return for a path in the current state.
SingleResults(path) ==
    UNION { LET r == match_rule(path, fs, rules, aiOn, a, now)
            IN  IF r = 0 THEN {None}
                ELSE { process_single_file(path, fs, rules, r, aiOn, n, base_dir) :
                         n \in Suggestions(rules[r], path, aiOn) } :
            a \in OracleAnswers(rules, aiOn) }

\* C12: no operation planned by the dry run or returned by the single-file
\* path has its destination equal to its source.
C12_NeverInPlace ==
    phase # "plan" =>
        /\ \A k \in DOMAIN ops : ops[k].to # ops[k].from
        /\ \A t \in DOMAIN files :
              \A res \in SingleResults(files[t]) :
                  IsSome(res) => Unwrap(res).to # Unwrap(res).from

(***************************************************************************)
(* The classifier's properties, on the call recorded in `call`.            *)
(***************************************************************************)
ThePath == Unwrap(call).path
TheFile == fs[ThePath]
TheRule == Unwrap(call).rule

\* The file's age in hours.
Age == now - TheFile.mtime

\* Rule i's predicates hold in the call, and its filters pass.
PredicateHolds(i) == rule_matched(rules[i], TheFile, ThePath, aiOn, Unwrap(call).answers[i])
SizeRejects(i) == IsSome(rules[i].min_size) /\ TheFile.size < Unwrap(rules[i].min_size)
AgeRejects(i) ==
    /\ IsSome(rules[i].max_age)
    /\ IsSome(parse_age(Unwrap(rules[i].max_age)))
    /\ Age < Unwrap(parse_age(Unwrap(rules[i].max_age)))
FullyMatches(i) == PredicateHolds(i) /\ ~SizeRejects(i) /\ ~AgeRejects(i)

\* C13: match_rule returns the first rule, in list order, whose predicates
\* and filters all succeed, and None (0) when no rule does.
C13_FirstMatchWins ==
    phase = "classified" =>
        /\ (TheRule = 0) <=> (\A i \in DOMAIN rules : ~FullyMatches(i))
        /\ TheRule # 0 =>
              /\ TheRule \in DOMAIN rules
              /\ FullyMatches(TheRule)
              /\ \A j \in 1..(TheRule - 1) : ~FullyMatches(j)

\* C13 happens: both rules fully match the file and the first is returned.
C13_Witness ==
    /\ phase = "classified"
    /\ FullyMatches(1)
    /\ FullyMatches(2)
    /\ TheRule = 1

\* C14: a rule whose predicate matches and whose min_size or max_age filter
\* rejects the file does not end the classification: that rule is not
\* returned, and a later rule that fully matches is.
C14_FallsThrough ==
    phase = "classified" =>
        \A i \in DOMAIN rules :
            (PredicateHolds(i) /\ (SizeRejects(i) \/ AgeRejects(i))) =>
                /\ TheRule # i
                /\ (\A j \in 1..(i - 1) : ~FullyMatches(j)) =>
                      \A k \in (i + 1)..Len(rules) :
                          (FullyMatches(k) /\ \A j \in (i + 1)..(k - 1) : ~FullyMatches(j)) =>
                              TheRule = k

\* C14 happens: rule 1 matches by extension and rejects the file as too
\* young (or too small), and rule 2 is returned.
C14_Witness ==
    /\ phase = "classified"
    /\ PredicateHolds(1)
    /\ AgeRejects(1)
    /\ ~SizeRejects(1)
    /\ TheRule = 2

\* The file's sniffed extension, or the extension of its name, is in rule
\* i's extension set, letter case apart.
ExtInSet(i) ==
    /\ IsSome(rules[i].extensions)
    /\ \E k \in DOMAIN Unwrap(rules[i].extensions) :
          LET e == lower_text(Unwrap(rules[i].extensions)[k])
          IN  \/ /\ IsSome(TheFile.sniff)
                 /\ e = lower_text(Unwrap(TheFile.sniff).ext)
              \/ /\ IsSome(extension(ThePath))
                 /\ e = lower_text(Unwrap(extension(ThePath)))

\* C15 as stated: a rule whose extension set holds the file's extension and
\* whose min_size the file reaches is the rule returned, when no earlier
\* rule matches.
C15_ExtensionSelects ==
    phase = "classified" =>
        \A i \in DOMAIN rules :
            (ExtInSet(i) /\ ~SizeRejects(i) /\ \A j \in 1..(i - 1) : ~FullyMatches(j)) =>
                TheRule = i

\* C15 amended: ... and whose max_age, if it declares one, the file's age
\* reaches.
C15_ExtensionSelectsAged ==
    phase = "classified" =>
        \A i \in DOMAIN rules :
            (ExtInSet(i) /\ ~SizeRejects(i) /\ ~AgeRejects(i)
                /\ \A j \in 1..(i - 1) : ~FullyMatches(j)) =>
                TheRule = i

\* C15 happens: rule 2 lists "TXT", the file is a.txt, rule 1 does not
\* match, and rule 2 is returned.
C15_Witness ==
    /\ phase = "classified"
    /\ ~FullyMatches(1)
    /\ rules[2].extensions = Some(<<(<<"TXT">>)>>)
    /\ file_name(ThePath) = <<"a", ".", "txt">>
    /\ TheFile.sniff = None
    /\ TheRule = 2

\* A predicate that rule i declares holds for the file: the mime and the
\* type preset need a sniffed mime, the oracle has to be configured.
DeclaredHolds(i) ==
    \/ /\ IsSome(rules[i].mime)
       /\ IsSome(TheFile.sniff)
       /\ mime_matched(rules[i], TheFile.sniff)
    \/ /\ IsSome(rules[i].type)
       /\ IsSome(TheFile.sniff)
       /\ type_matched(rules[i], TheFile.sniff)
    \/ ExtInSet(i)
    \/ /\ IsSome(rules[i].regex)
       /\ regex_matched(rules[i], ThePath)
    \/ /\ IsSome(rules[i].ai_prompt)
       /\ aiOn
       /\ Unwrap(call).answers[i]

\* C16: a rule is a candidate iff one of the predicates it declares holds:
\* the first rule is returned exactly when one of its declared predicates
\* holds and its filters pass, and whichever rule is returned has a
\* declared predicate that holds.
C16_AnyDeclared ==
    phase = "classified" =>
        /\ (TheRule = 1) <=> (DeclaredHolds(1) /\ ~SizeRejects(1) /\ ~AgeRejects(1))
        /\ TheRule # 0 => DeclaredHolds(TheRule)
        /\ \A i \in DOMAIN rules :
              (\A j \in 1..(i - 1) : ~FullyMatches(j)) =>
                  ((TheRule = i) <=> (DeclaredHolds(i) /\ ~SizeRejects(i) /\ ~AgeRejects(i)))

\* C16 happens: rule 1 declares a type preset and an extension set, only
\* the extension holds (nothing was sniffed), and rule 1 is returned.
C16_Witness ==
    /\ phase = "classified"
    /\ IsSome(rules[1].type)
    /\ IsSome(rules[1].extensions)
    /\ TheFile.sniff = None
    /\ TheRule = 1

(***************************************************************************)
(* Properties of execute's loop                                            *)
(***************************************************************************)
\* The positions of the journaled operations, in planned order.
JournaledPositions == SelectSeq(Positions, IsJournaled)

\* Operation i has had its conflict check.
Checked(i) ==
    \/ i < idx /\ outcome[i].report # "Error (Dir)"
    \/ i = idx /\ step \in {"fs1", "fs2", "record"}

\* An earlier operation has put a file at operation i's planned destination
\* and none in between has taken it away.
MadeByEarlier(i) ==
    \E k \in 1..(i - 1) :
        /\ IsJournaled(k)
        /\ outcome[k].final = Some(ops[i].to)
        /\ \A j \in (k + 1)..(i - 1) : ops[j].from # ops[i].to

\* C17: execution is sequential and in planned order: while operation idx
\* is under way every earlier operation has reached its outcome and no
\* later one has been touched; the journaled entries are the journaled
\* operations in planned order; and a conflict check sees the file an
\* earlier operation has put at the planned destination.
C17_Sequential ==
    Executing =>
        /\ \A k \in DOMAIN ops :
              /\ k < idx => IsTerminal(k)
              /\ k = idx => outcome[k].state \in {"planned", "executed"}
              /\ k > idx => /\ outcome[k].state = "planned"
                            /\ outcome[k].final = None
                            /\ outcome[k].report = ""
        /\ journal = FinalOps(JournaledPositions)
        /\ \A i \in DOMAIN ops : (Checked(i) /\ MadeByEarlier(i)) => outcome[i].conflict

\* C17 happens: two operations are journaled, the second one's conflict
\* check has seen the file the first one created at the shared destination.
C17_Witness ==
    /\ phase = "done"
    /\ \E i \in DOMAIN ops :
          /\ IsJournaled(i)
          /\ MadeByEarlier(i)
          /\ ops[i].to \notin DOMAIN fs0
          /\ outcome[i].conflict
          /\ outcome[i].final # Some(ops[i].to)

\* execute is over: it has returned, or it has panicked.
Ended == phase \in {"done", "saved", "panicked"}

FailureReports == {"Error (Dir)", "Error (Conflict)", "Error (Move)"}

C18_State ==
    Executing =>
        \A k \in DOMAIN ops :
            outcome[k].state = "failed" =>
                /\ outcome[k].report \in FailureReports
                /\ Ended => /\ phase # "panicked"
                            /\ \A j \in (k + 1)..Len(ops) : IsTerminal(j)
                            /\ journal = FinalOps(JournaledPositions)

C18_Step ==
    \A k \in DOMAIN outcome :
        outcome[k].state = "failed" => outcome'[k] = outcome[k]

\* C18: a failed operation is reported through on_progress and never tried
\* again, every later operation is still attempted, and execute returns Ok
\* with the journal of the successes.
C18_FailureIsolated == []C18_State /\ [][C18_Step]_vars

\* The append of operation k's entry to the journal file failed.
AppendFailed(k) == journal_path /\ IsJournaled(k) /\ ~outcome[k].logged

C19_State ==
    Executing =>
        \A k \in DOMAIN ops :
            AppendFailed(k) =>
                /\ \E i \in DOMAIN journal : journal[i] = FinalOp(k)
                /\ phase \in {"done", "saved"} =>
                      \A j \in (k + 1)..Len(ops) : IsTerminal(j)

C19_Step ==
    (phase = "exec" /\ step = "record" /\ faults' # faults) =>
        /\ fs' = fs
        /\ dirs' = dirs
        /\ jfile' = jfile
        /\ journal' = Append(journal, [ops[idx] EXCEPT !.to = Unwrap(final_to)])
        /\ phase' = "exec"
        /\ idx' = idx + 1
        /\ step' = "dir"

C20_State ==
    /\ (phase = "saved" /\ journal # <<>>) =>
          /\ jfile = save(journal)
          /\ load(jfile) = journal
    /\ (phase \in {"exec", "done", "crashed", "panicked"} /\ IsSome(jfile)) =>
          load(jfile) = FinalOps(SelectSeq(Positions, IsLogged))

C20_Step ==
    (phase \in {"saved", "crashed"} /\ phase' = "undo") =>
        uops' = IF phase = "saved" /\ journal # <<>> THEN journal
                ELSE FinalOps(SelectSeq(Positions, IsLogged))

\* C20: load reads both shapes: the file written by save gives back the
\* saved operations, the file built by the appends of a run gives back the
\* appended operations in append order; undo starts from what load returns.
C20_LoadBothShapes == []C20_State /\ [][C20_Step]_vars

\* C20 happens: undo has loaded a saved document of two or more operations,
\* one of them a HardLink.
C20_Witness ==
    /\ phase = "undo"
    /\ jfile = save(journal)
    /\ uops = journal
    /\ Len(uops) >= 2
    /\ \E i \in DOMAIN uops : uops[i].op_type.tag = "HardLink"

(***************************************************************************)
(* Properties of the dry run                                               *)
(***************************************************************************)
\* Task t planned its file without a digest: calculate_hash failed.
HashFailed(t) == IsSome(tres[t]) /\ thash[t] = None /\ tpc[t] # "start"

C21_State ==
    /\ \A t \in DOMAIN files :
          HashFailed(t) =>
              /\ Unwrap(tres[t]).op_type = Move
              /\ Unwrap(tres[t]).from = files[t]
              /\ phase # "plan" => \E k \in DOMAIN ops : ops[k] = Unwrap(tres[t])
    /\ \A h \in DOMAIN seen_hashes :
          \E t \in DOMAIN files :
              /\ thash[t] = Some(h)
              /\ IsSome(tres[t])
              /\ Unwrap(tres[t]).to = seen_hashes[h]
    /\ phase # "plan" =>
          \A h \in 1..NumContents :
              LET G == { k \in DOMAIN ops : DigestOf(ops[k]) = Some(h) }
              IN  /\ G # {} => \E m \in G : ops[m].op_type = Move
                  /\ \A k \in G : ops[k].op_type.tag = "HardLink" =>
                        \E m \in G : ops[m].op_type = Move
                                       /\ ops[k].op_type.original = ops[m].to

C21_Step ==
    (phase = "plan" /\ faults' # faults) =>
        /\ seen_hashes' = seen_hashes
        /\ thash' = thash
        /\ \E t \in DOMAIN files :
              /\ tpc[t] = "start"
              /\ tpc'[t] = "count"
              /\ IsSome(tres'[t])
              /\ Unwrap(tres'[t]).from = files[t]
              /\ Unwrap(tres'[t]).op_type = Move
              /\ \A u \in DOMAIN files \ {t} : tres'[u] = tres[u] /\ tpc'[u] = tpc[u]

\* C21: a file whose digest cannot be computed is planned as a plain Move,
\* the digest table is left as it was (the file is no canonical entry and
\* no link), and the other files get their canonical Move and their links
\* as usual.
C21_HashFailureDegrades == []C21_State /\ [][C21_Step]_vars

\* C21 happens: three files of one content, the digest of one failed: it is
\* a Move outside the table, the two others are a Move and a link to it.
C21_Witness ==
    /\ phase = "exec"
    /\ Len(ops) = 3
    /\ \A k \in DOMAIN ops : fs0[ops[k].from].content = 1
    /\ \E k \in DOMAIN ops :
          /\ HashFailed(TaskOf(ops[k]))
          /\ ops[k].op_type = Move
          /\ \E m, n \in DOMAIN ops \ {k} :
                ops[m].op_type = Move /\ ops[n].op_type = HardLink(ops[m].to)

(***************************************************************************)
(* The resolver's properties, on the call recorded in `call`.              *)
(***************************************************************************)
TheTemplate == rules[1].target
TheResolved == Unwrap(call).resolved
TheTarget == Unwrap(call).target

\* What a token of the template stands for when every placeholder is
\* substituted on its own: the stem, the file name, the literal extension.
Stands(tok, path) ==
    CASE tok = "${name}" -> file_stem(path)
      [] tok = "${filename}" -> file_name(path)
      [] tok = "${ext}" /\ IsSome(extension(path)) -> Unwrap(extension(path))
      [] OTHER -> <<tok>>

RECURSIVE SubstAll(_, _)
SubstAll(s, path) ==
    IF s = <<>> THEN <<>> ELSE Stands(Head(s), path) \o SubstAll(Tail(s), path)

OtherPlaceholders == {"${ai_name}", "${year}", "${month}", "${day}"}

\* C22: in a template of name, filename and ext placeholders, every
\* occurrence is replaced by the stem, the file name and the literal
\* extension, each independently of the others; "${ext}/${name}_copy" on
\* test.txt gives "txt/test_copy", "backup/${filename}" gives
\* "backup/test.txt".
C22_Independent ==
    phase = "resolved" =>
        /\ (\A i \in DOMAIN TheTemplate : TheTemplate[i] \notin OtherPlaceholders) =>
              TheResolved = SubstAll(TheTemplate, ThePath)
        /\ file_name(ThePath) = <<"test", ".", "txt">> =>
              /\ TheTemplate = <<"${ext}", "/", "${name}", "_copy">> =>
                    TheResolved = <<"txt", "/", "test", "_copy">>
              /\ TheTemplate = <<"backup", "/", "${filename}">> =>
                    TheResolved = <<"backup", "/", "test", ".", "txt">>

DatePlaceholders == {"${year}", "${month}", "${day}"}
IsDatePlaceholder(tok) == tok \in DatePlaceholders

\* YYYY-MM of the three modification times of the model.
YearMonth(m) ==
    CASE m = 0 -> <<"2", "0", "2", "4", "-", "0", "1">>
      [] m = 1416 -> <<"2", "0", "2", "4", "-", "0", "2">>
      [] OTHER -> <<"2", "0", "2", "5", "-", "0", "1">>

\* C23: when the file's metadata can be read no date placeholder is left
\* and "${year}-${month}" is the 7-character YYYY-MM of the modified time;
\* when it cannot, every date placeholder of the template is left as it
\* stands; never some replaced and some left.
C23_DatesAllOrNone ==
    phase = "resolved" =>
        /\ ThePath \in DOMAIN fs =>
              /\ \A i \in DOMAIN TheResolved : ~IsDatePlaceholder(TheResolved[i])
              /\ TheTemplate = <<"${year}", "-", "${month}">> =>
                    /\ Len(TheResolved) = 7
                    /\ TheResolved = YearMonth(fs[ThePath].mtime)
        /\ ThePath \notin DOMAIN fs =>
              SelectSeq(TheResolved, IsDatePlaceholder)
                  = SelectSeq(TheTemplate, IsDatePlaceholder)

\* C23 happens: "${year}-${month}" on a file modified on 2024-02-29.
C23_Witness ==
    /\ phase = "resolved"
    /\ TheTemplate = <<"${year}", "-", "${month}">>
    /\ ThePath \in DOMAIN fs
    /\ fs[ThePath].mtime = 1416
    /\ TheResolved = <<"2", "0", "2", "4", "-", "0", "2">>

FilenamePlaceholders == {"${ai_name}", "${ext}", "${name}", "${filename}"}

\* The resolved string as a path: verbatim when absolute, under the base
\* directory otherwise.
Placed == IF Head(TheResolved) = "/" THEN TheResolved
          ELSE base_dir \o <<"/">> \o TheResolved

\* C24: the destination is the resolved string when the template holds
\* ${ai_name}, ${ext}, ${name} or ${filename}, and otherwise the resolved
\* string as a directory with the file's name appended; an absolute
\* resolved path is used verbatim, a relative one lies under the base
\* directory.
C24_Destination ==
    phase = "resolved" =>
        TheTarget = IF \E i \in DOMAIN TheTemplate : TheTemplate[i] \in FilenamePlaceholders
                    THEN Placed
                    ELSE Placed \o <<"/">> \o file_name(ThePath)

\* C24 happens: the absolute template "/abs/${name}" on test.txt gives
\* "/abs/test".
C24_Witness ==
    /\ phase = "resolved"
    /\ TheTemplate = <<"/", "abs", "/", "${name}">>
    /\ file_name(ThePath) = <<"test", ".", "txt">>
    /\ TheTarget = <<"/", "abs", "/", "test">>

\* The oracle's match fails, or no oracle is configured; likewise for the
\* naming request.
MatchFailed == ~aiOn \/ Unwrap(call).mreply = "error"
NamingFailed == ~aiOn \/ Unwrap(call).nreply = None

\* The template with ${name} in the place of ${ai_name}.
NameForAiName == [rules[1] EXCEPT !.target = replace(TheTemplate, "${ai_name}", <<"${name}">>)]

\* Within one classification and one resolution: a failed oracle call, or
\* no oracle, makes the oracle predicate false and classification goes on
\* to the next rule; for naming it makes ${ai_name} stand for what ${name}
\* stands for.
OracleFailsSafeInCall ==
    phase = "resolved" =>
        /\ (MatchFailed /\ IsSome(rules[1].ai_prompt)) =>
              /\ TheRule # 1
              /\ (TheRule = 2) <=>
                    /\ ThePath \in DOMAIN fs
                    /\ IsSome(extension(ThePath))
                    /\ Unwrap(extension(ThePath)) \in {<<"txt">>, <<"gz">>}
        /\ (NamingFailed /\ contains(TheTemplate, "${ai_name}")) =>
              /\ ~contains(TheResolved, "${ai_name}")
              /\ TheResolved = resolve_placeholders(NameForAiName, ThePath, fs, aiOn, <<>>)

\* Both oracle calls fail for test.txt under "docs/${ai_name}.${ext}": the
\* second rule takes the file and the name resolves to "docs/test.txt".
OracleFailsSafeReached ==
    /\ phase = "resolved"
    /\ aiOn
    /\ IsSome(rules[1].ai_prompt)
    /\ Unwrap(call).mreply = "error"
    /\ Unwrap(call).nreply = None
    /\ TheTemplate = <<"docs", "/", "${ai_name}", ".", "${ext}">>
    /\ TheRule = 2
    /\ TheResolved = <<"docs", "/", "test", ".", "txt">>

\* C25: an oracle failure is never fatal: where a rule is matched by the
\* oracle, no answer of the oracle, a failed call included, ends execute in
\* a panic.
C25_NeverFatal ==
    (aiOn /\ \E i \in DOMAIN rules : IsSome(rules[i].ai_prompt)) => phase # "panicked"

(***************************************************************************)
(* Properties of the watch path                                            *)
(***************************************************************************)
C26_State ==
    phase = "watch" =>
        /\ seen_hashes = <<>>
        /\ \A t \in DOMAIN files : thash[t] = None
        /\ \A k \in DOMAIN ops : ops[k].op_type = Move
        /\ \A t \in DOMAIN files :
              IsSome(tres[t]) => /\ Unwrap(tres[t]).op_type = Move
                                 /\ Unwrap(tres[t]).from = files[t]
                                 /\ files[t] \in DOMAIN fs0

C26_Step ==
    \A t \in DOMAIN files :
        (phase = "watch" /\ tpc[t] = "start" /\ tpc'[t] = "done") =>
            /\ files[t] \notin DOMAIN fs => tres'[t] = None
            /\ (\A a \in OracleAnswers(rules, aiOn) :
                    match_rule(files[t], fs, rules, aiOn, a, now) = 0) => tres'[t] = None
            /\ seen_hashes' = seen_hashes

\* C26: the single-file path keeps no digest table and returns only Move
\* operations, also for a file whose content an earlier file had; it
\* returns nothing for a path that is no regular file or matches no rule.
C26_NoDedup == []C26_State /\ [][C26_Step]_vars

\* C26 happens: two files of one content were processed one after the
\* other, both were returned as Move and moved; the events for the
\* directory and for the missing path returned nothing.
C26_Witness ==
    /\ phase = "watch"
    /\ \A t \in DOMAIN files : tpc[t] = "done"
    /\ \E k, m \in DOMAIN ops :
          /\ k < m
          /\ fs0[ops[k].from].content = fs0[ops[m].from].content
          /\ ops[k].op_type = Move /\ ops[m].op_type = Move
          /\ ops[k].to \in DOMAIN fs /\ ops[m].to \in DOMAIN fs
    /\ tres[NumFiles + 1] = None
    /\ tres[NumFiles + 2] = None

(***************************************************************************)
(* The states of one operation                                             *)
(***************************************************************************)
C27_Stays ==
    \A k \in DOMAIN ops :
        (phase # "plan" /\ IsTerminal(k)) => outcome'[k].state = outcome[k].state

C27_AfterExecuted ==
    \A k \in DOMAIN ops :
        (phase # "plan" /\ ~IsJournaled(k) /\ outcome'[k].state = "journaled") =>
            outcome[k].state = "executed"

C27_Returns ==
    phase \in {"done", "saved"} => \A k \in DOMAIN ops : IsTerminal(k)

C27_UndoOnJournaled ==
    phase = "undo" =>
        \A j \in DOMAIN uops :
            \E k \in DOMAIN ops : IsJournaled(k) /\ uops[j].from = ops[k].from

\* C27: every planned operation eventually reaches one of Skipped, Failed,
\* Journaled and stays there; Journaled is entered from the executed state
\* only; execute returns once every operation is terminal; undo acts on
\* journaled operations only.
C27_StateMachine ==
    /\ <>(phase \notin {"plan", "exec"} /\ \A k \in DOMAIN ops : IsTerminal(k))
    /\ [][C27_Stays /\ C27_AfterExecuted]_vars
    /\ [](C27_Returns /\ C27_UndoOnJournaled)

(***************************************************************************)
(* What a failed or skipped operation leaves behind                        *)
(***************************************************************************)
SourceKept(k) ==
    /\ ops[k].from \in DOMAIN fs
    /\ fs[ops[k].from].content = fs0[ops[k].from].content

\* C28: an operation that ended Failed or Skipped left the files as they
\* were: its source is still at its original path with its content, for a
\* Move and for a HardLink alike.
C28_SourceKept ==
    phase \in {"exec", "done", "saved", "panicked", "crashed"} =>
        \A k \in DOMAIN ops :
            outcome[k].state \in {"failed", "skipped"} => SourceKept(k)

(***************************************************************************)
(* Links and their canonical files                                         *)
(***************************************************************************)
IsLink(k) == ops[k].op_type.tag = "HardLink"

\* C29: in the sequence the dry run returns, every HardLink comes after the
\* Move whose planned destination it names as canonical, whichever task
\* registered its digest first.
C29_CanonicalFirst ==
    phase # "plan" =>
        \A k \in DOMAIN ops :
            IsLink(k) =>
                \E m \in 1..(k - 1) :
                    /\ ops[m].op_type = Move
                    /\ ops[m].to = ops[k].op_type.original

C30_Step ==
    \A k \in DOMAIN ops :
        (Executing /\ IsLink(k) /\ ~IsJournaled(k) /\ outcome'[k].state = "journaled") =>
            /\ IsSome(outcome'[k].final)
            /\ Unwrap(outcome'[k].final) \in DOMAIN fs'
            /\ fs'[Unwrap(outcome'[k].final)].content = fs0[ops[k].from].content

\* C30: when a HardLink operation is journaled, the file at its final
\* destination has the content its source had, also when the canonical
\* Move was renamed, skipped or failed.
C30_LinkHasContent == [][C30_Step]_vars

(***************************************************************************)
(* The policy applied to a conflict                                        *)
(***************************************************************************)
RuleNamed(name) == CHOOSE i \in DOMAIN rules : rules[i].name = name

\* C31: the policy applied to an operation whose destination exists is the
\* policy of the rule that planned it: the re-classification of the source
\* in handle_conflict succeeds and yields the rule named in the operation.
C31_PlannedPolicy ==
    Executing =>
        /\ phase # "panicked"
        /\ \A k \in DOMAIN ops :
              outcome[k].conflict =>
                  outcome[k].strategy =
                      strategy_of(rules[RuleNamed(Unwrap(ops[k].rule_name))])

(***************************************************************************)
(* The destinations of one run                                             *)
(***************************************************************************)
HasSuffix(k) == IsSome(outcome[k].final) /\ Suffixed(Unwrap(outcome[k].final))

\* C32: the final destinations of the operations journaled by one run are
\* pairwise distinct and none was there when its operation started; of two
\* operations planned to one destination under Rename the later one ends at
\* another path.
C32_DistinctDestinations ==
    Executing =>
        \A k \in DOMAIN ops :
            IsJournaled(k) =>
                /\ IsSome(outcome[k].final)
                /\ ~outcome[k].taken
                /\ \A m \in 1..(k - 1) :
                      IsJournaled(m) =>
                          /\ outcome[m].final # outcome[k].final
                          /\ (ops[m].to = ops[k].to /\ outcome[k].strategy = "Rename")
                                => HasSuffix(k)

\* C32 happens: two operations planned to one destination were both
\* journaled, the later one under Rename at a suffixed path.
C32_Witness ==
    /\ Executing
    /\ \E k \in DOMAIN ops : \E m \in 1..(k - 1) :
          /\ IsJournaled(k) /\ IsJournaled(m)
          /\ ops[m].to = ops[k].to
          /\ outcome[k].conflict /\ outcome[k].strategy = "Rename"
          /\ HasSuffix(k)
          /\ Unwrap(outcome[k].final) \in DOMAIN fs

(***************************************************************************)
(* The journal file and the journal returned                               *)
(***************************************************************************)
AllAppended == \A k \in DOMAIN ops : IsJournaled(k) => outcome[k].logged

AppendedLines == IF IsSome(jfile) THEN Unwrap(jfile).lines ELSE <<>>

\* C33: with a journal file that was absent at the start and no failed
\* append, the operations appended to the file during execute are the
\* journal execute builds and returns: the same operations in the same
\* order, each with its final destination, its action and its rule name.
C33_FileIsJournal ==
    (journal_path /\ phase \in {"exec", "done"} /\ AllAppended) =>
        /\ AppendedLines = [i \in DOMAIN journal |-> to_string(journal[i])]
        /\ FileOps = journal
        /\ journal = FinalOps(SelectSeq(Positions, IsJournaled))

\* C33 happens: execute returned a journal of two operations, one of them
\* at a destination changed by the conflict resolution, and every append
\* succeeded.
C33_Witness ==
    /\ journal_path
    /\ phase = "done"
    /\ AllAppended
    /\ Len(journal) >= 2
    /\ \E k \in DOMAIN ops : IsJournaled(k) /\ outcome[k].final # Some(ops[k].to)

(***************************************************************************)
(* Undo run a second time                                                  *)
(***************************************************************************)
\* The second undo is running or has ended, and no call was made to fail.
SecondUndo == undoRuns = 2 /\ phase \in {"undo", "undone", "undoerr"} /\ faults = 0

C34_State == SecondUndo => count = 0

C34_Step ==
    /\ (SecondUndo /\ faults' = 0) => (fs' = fs /\ dirs' = dirs /\ count' = 0)
    /\ phase \in {"saved", "crashed", "undo", "undone", "undoerr"} => jfile' = jfile

UndoEntry == uops[rev_next(uops, upos)]

\* The step is the loop's visit of an entry.
UndoVisit == phase = "undo" /\ upos > 0 /\ Len(undoLog') = Len(undoLog) + 1

\* The entry's destination is there and the visit did not move it back.
MoveBackFailed ==
    /\ UndoVisit
    /\ exists(UndoEntry.to, fs, dirs)
    /\ ~undoLog'[Len(undoLog')].moved

C35_Step ==
    /\ UndoVisit =>
          \A p \in DOMAIN fs :
              p # UndoEntry.to => (p \in DOMAIN fs' /\ fs'[p] = fs[p])
    /\ MoveBackFailed =>
          /\ phase' = "undoerr"
          /\ upos' = upos
          /\ UndoEntry.to \in DOMAIN fs => UndoEntry.to \in DOMAIN fs'

C35_State ==
    (phase = "undoerr" /\ upos > 0) =>
        /\ \A i \in DOMAIN undoLog : undoLog[i].k >= rev_next(uops, upos)
        /\ \A i \in DOMAIN undoLog :
              undoLog[i].k = rev_next(uops, upos) => ~undoLog[i].moved

\* C35: undo never overwrites a file: when an entry's destination is there
\* and it cannot be moved back, whatever is at the source path is left as it
\* is, undo ends with an error at that entry, and the entries before it in
\* the journal are not visited.
C35_NeverOverwrites == []C35_State /\ [][C35_Step]_vars

\* C35 happens: with no call made to fail, undo ended at an entry whose
\* source path was occupied, with an earlier entry still at its destination.
C35_Witness ==
    /\ phase = "undoerr"
    /\ faults = 0
    /\ upos >= 2
    /\ UndoEntry.to \in DOMAIN fs
    /\ UndoEntry.from \in DOMAIN fs
    /\ uops[1].to \in DOMAIN fs

(***************************************************************************)
(* The locks and the counts of the parallel dry run                        *)
(***************************************************************************)
\* How many times on_progress was called with the count c: by the reports
\* of a file analysed, and by all reports.
Analyzed(c) == sink[<<c, "analyzed">>]
Passed(c) == sink[<<c, "analyzed">>] + sink[<<c, "status">>]

AllDone == \A t \in DOMAIN files : tpc[t] = "done"

\* A task holds the digest table's lock only at the lookup-or-insert, the
\* counter's lock only at the increment, never both.
C36_Locks ==
    \A t \in DOMAIN files :
        /\ ~(hlock = t /\ clock = t)
        /\ hlock = t => tpc[t] = "register"
        /\ clock = t => tpc[t] = "incr"

\* A lock is taken by a task that holds neither, and the step of the task
\* that holds the digest table's lock is the lookup-or-insert: it gives the
\* lock back and leaves the counter and the progress sink alone.
C36_Step ==
    \A t \in DOMAIN files :
        /\ (clock' = t /\ clock # t) => (hlock # t /\ hlock' # t)
        /\ (hlock' = t /\ hlock # t) => (clock # t /\ clock' # t)
        /\ (hlock = t /\ tpc'[t] # tpc[t]) =>
              /\ hlock' = 0
              /\ tpc'[t] = "count"
              /\ current' = current
              /\ sink' = sink
              /\ seen_hashes' \in {seen_hashes,
                                   Put(seen_hashes, Unwrap(thash[t]), Unwrap(tres[t]).to)}

\* The files analysed so far have reported the counts 1..current, each once,
\* and the count ends at the number of scanned files.
C36_Counts ==
    /\ current \in 0..Len(files)
    /\ current = Cardinality({t \in DOMAIN files : tpc[t] = "done"})
    /\ Analyzed(0) = 0
    /\ \A c \in 1..NumFiles : Analyzed(c) = IF c <= current THEN 1 ELSE 0
    /\ AllDone => current = Len(files)

\* Every count passed to the sink, by whatever report, is one of 1..total
\* and is passed once.
C36_AllCounts ==
    /\ Passed(0) = 0
    /\ \A c \in 1..NumFiles : Passed(c) <= 1
    /\ AllDone => \A c \in 1..Len(files) : Passed(c) = 1

\* C36 amended: the parallel dry run is deadlock-free and terminates: no task
\* takes the counter's lock while it holds the digest table's lock or the
\* reverse, the digest lookup-or-insert is the only step done under the
\* digest lock, and the count passed to the progress sink by the reports of
\* a file analysed takes each value 1..total exactly once, ending at the
\* number of scanned files.
C36_DryRun ==
    /\ [](C36_Locks /\ C36_Counts)
    /\ [][C36_Step]_vars
    /\ <>(phase # "plan" /\ AllDone)

\* C36 as stated: the same, with every count passed to the progress sink,
\* the status reports of the oracle's calls included, taking each value
\* 1..total exactly once.
C36_DryRunAllReports ==
    /\ [](C36_Locks /\ C36_Counts /\ C36_AllCounts)
    /\ [][C36_Step]_vars
    /\ <>(phase # "plan" /\ AllDone)

\* C36 happens: the dry run has ended after two tasks with the same digest
\* went through the digest table's lock, one of them found the other's
\* entry, and every file was counted.
C36_Witness ==
    /\ phase = "exec"
    /\ AllDone
    /\ current = NumFiles
    /\ \E t, u \in DOMAIN files :
          /\ t # u
          /\ IsSome(thash[t]) /\ thash[t] = thash[u]
          /\ IsSome(tres[u]) /\ Unwrap(tres[u]).op_type # Move
    /\ \A c \in 1..NumFiles : Analyzed(c) = 1

====
